---- MODULE Spec2Model ----
(***************************************************************************)
(* Verification model of the emotion-verdict builder                       *)
(* (backend/app/ml/model_manager.py, ModelManager.predict), of the catalog *)
(* matcher (backend/app/api/v1/endpoints/recommendations.py,               *)
(* _find_best_matching_song), of the mood-pattern insights                 *)
(* (endpoints/insights.py), of the analyze, recommendation and feedback    *)
(* endpoints, and of the explainer with the emotion service.               *)
(*                                                                         *)
(* Scores, confidences and thresholds are probabilities written as         *)
(* integers in hundred-thousandths: 80000 is 0.8, 79999 is 0.79999.        *)
(***************************************************************************)
EXTENDS Integers, Sequences, FiniteSets, TLC

VARIABLES
    coverage,        \* a matcher result: how many detected labels the winner matched, of how many
    rationale,       \* what _generate_recommendation_explanation returned for it (NoValue before)
    objects,         \* how many ModelManager objects the process has allocated
    load_runs,       \* how many times _load_model has run
    started,         \* whether the application's startup has completed
    manager_calls,   \* the constructor, get_instance and health calls made and what they ended with, in order
    lists,           \* the list objects of the process: the first is ModelManager.EMOTIONS, the others are copies
    handles,         \* the calls of get_emotions_list: the list each returned and what it held then
    mutations,       \* how many times a caller has changed a list it was given
    http_request,    \* the HTTP request served last, with the user who sent it (NoValue before)
    songs0,          \* the rows of the songs table before the first request
    workers,         \* the handlers of POST /recommendations: where each is, and the song row its session read
    scores_array,    \* predict: the sigmoid scores of the 17 labels, as multiples of a unit 10^-k
    emotional_complexity, \* predict: the emotional_complexity it computed (NoValue before)
    loaded,          \* ModelManager._loaded
    emotion_scores,  \* predict: the label -> score dictionary of the text
    threshold,       \* predict: its threshold argument
    prediction,      \* what predict returned (NoValue before the call)
    songs,           \* the rows of the songs table, in the order a query lists them
    match_results,   \* what the calls of _find_best_matching_song returned, in order
    window,          \* get_mood_patterns: the analyses its query returned, oldest first
    patterns,        \* what get_mood_patterns returned (NoValue before the call)
    instance,        \* ModelManager._instance
    analyses,        \* the rows of the emotion_analyses table
    recommendations, \* the rows of the recommendations table
    response,        \* the HTTP response of the request served last (NoValue before)
    SHAP_AVAILABLE,  \* explainer.py: whether the shap package could be imported
    initialized,     \* EmotionExplainer._initialized
    explanations,    \* the calls of EmotionExplainer.explain and what they ended with, in order
    service_results  \* the calls of EmotionService.analyze and what they ended with, in order

\* the variables of the verdict builder and of the matcher
matchVars == <<emotion_scores, threshold, prediction, match_results>>
\* the variables of the insights endpoint
insightVars == <<window, patterns>>
\* the variables of the HTTP endpoints that build verdicts and recommendations
apiVars == <<instance, analyses, recommendations, response>>
\* the variables of the explainer and of the emotion service
explainVars == <<SHAP_AVAILABLE, initialized, explanations, service_results>>
\* the variables of the explanation's percentage
percentVars == <<coverage, rationale>>
\* the variables of the manager's life cycle
managerVars == <<objects, load_runs, started, manager_calls>>
\* the variables of the label list and its copies
labelVars == <<lists, handles, mutations>>
\* the variable of the request in hand
requestVars == <<http_request>>
\* the variables of the recommendation requests in flight
counterVars == <<songs0, workers>>
\* the variables of the complexity measure
complexityVars == <<scores_array, emotional_complexity>>
\* the variables of the parts below the service layer
lateVars == <<percentVars, managerVars, labelVars, requestVars, counterVars, complexityVars>>
\* the same, but for one part
lateButPercent == <<managerVars, labelVars, requestVars, counterVars, complexityVars>>
lateButManager == <<percentVars, labelVars, requestVars, counterVars, complexityVars>>
lateButLabel == <<percentVars, managerVars, requestVars, counterVars, complexityVars>>
lateButRequest == <<percentVars, managerVars, labelVars, counterVars, complexityVars>>
lateButCounter == <<percentVars, managerVars, labelVars, requestVars, complexityVars>>
lateButComplexity == <<percentVars, managerVars, labelVars, requestVars, counterVars>>

vars == <<loaded, songs, matchVars, insightVars, apiVars, explainVars, lateVars>>

\* what the variables of one part hold while another part is explored
MatchIdle ==
    /\ emotion_scores = << >>
    /\ threshold = 0
    /\ prediction = [ outcome |-> "pending" ]
    /\ match_results = << >>
InsightsIdle ==
    /\ window = << >>
    /\ patterns = [ outcome |-> "pending" ]
ApiIdle ==
    /\ instance = << >>
    /\ analyses = << >>
    /\ recommendations = << >>
    /\ response = [ outcome |-> "pending" ]
ExplainIdle ==
    /\ SHAP_AVAILABLE = FALSE
    /\ initialized = FALSE
    /\ explanations = << >>
    /\ service_results = << >>
PercentIdle ==
    /\ coverage = [ matched |-> 0, detected |-> 0 ]
    /\ rationale = [ outcome |-> "pending" ]
ManagerIdle ==
    /\ objects = 0
    /\ load_runs = 0
    /\ started = FALSE
    /\ manager_calls = << >>
LabelIdle ==
    /\ lists = << >>
    /\ handles = << >>
    /\ mutations = 0
RequestIdle ==
    /\ http_request = [ outcome |-> "pending" ]
CounterIdle ==
    /\ songs0 = << >>
    /\ workers = << >>
ComplexityIdle ==
    /\ scores_array = << >>
    /\ emotional_complexity = [ outcome |-> "pending" ]
\* every part below the service layer is idle, but the one named
LateIdleBut(part) ==
    /\ IF part = "percent" THEN TRUE ELSE PercentIdle
    /\ IF part = "manager" THEN TRUE ELSE ManagerIdle
    /\ IF part = "label" THEN TRUE ELSE LabelIdle
    /\ IF part = "request" THEN TRUE ELSE RequestIdle
    /\ IF part = "counter" THEN TRUE ELSE CounterIdle
    /\ IF part = "complexity" THEN TRUE ELSE ComplexityIdle

\* a nullable value: None, or the value in a one-element tuple
None == << >>
Some(v) == << v >>

\* x or 0
OrZero(x) == IF x = None THEN 0 ELSE x[1]

\* the result slot of a call: not made yet, or ended by a raised exception
NoValue == [ outcome |-> "pending" ]
Raised(exception) == [ outcome |-> "raised", exception |-> exception ]

----------------------------------------------------------------------------
(* The label set *)

EMOTIONS ==
    << "Happiness", "Contentment", "Confidence", "Neutral", "Sadness",
       "Anger", "Fear", "Surprise", "Disgust", "Love", "Excitement",
       "Anticipation", "Nostalgia", "Confusion", "Frustration", "Longing",
       "Optimism" >>

Labels == { EMOTIONS[i] : i \in 1..Len(EMOTIONS) }

\* position of a label in EMOTIONS
IndexOf(e) == CHOOSE i \in 1..Len(EMOTIONS) : EMOTIONS[i] = e

----------------------------------------------------------------------------
(* Bounds of the explored inputs *)

\* labels whose score varies freely; the others share one background score
ActiveOrder == << "Love", "Happiness", "Optimism", "Contentment", "Sadness" >>
NActive == 3
ActiveLabels == { ActiveOrder[i] : i \in 1..NActive }

ScoreValues == { 0, 30000, 50000, 79999, 80000, 100000 }
BackgroundValues == { 0, 50000 }
ThresholdValues == { -10000, 0, 30000, 50000, 79999, 100000, 120000 }

ScoreVectors ==
    { [ e \in Labels |-> IF e \in ActiveLabels THEN a[e] ELSE b ] :
        a \in [ActiveLabels -> ScoreValues], b \in BackgroundValues }

----------------------------------------------------------------------------
(* ModelManager.predict *)

RemoveAt(seq, i) == SubSeq(seq, 1, i - 1) \o SubSeq(seq, i + 1, Len(seq))

\* first position holding the largest score
FirstMaxIndex(seq, scores) ==
    CHOOSE i \in 1..Len(seq) :
        /\ \A j \in 1..Len(seq) : scores[seq[j]] <= scores[seq[i]]
        /\ \A j \in 1..(i - 1) : scores[seq[j]] < scores[seq[i]]

\* last position holding the largest score
LastMaxIndex(seq, scores) ==
    CHOOSE i \in 1..Len(seq) :
        /\ \A j \in 1..Len(seq) : scores[seq[j]] <= scores[seq[i]]
        /\ \A j \in (i + 1)..Len(seq) : scores[seq[j]] < scores[seq[i]]

RECURSIVE SortDescendingLastFirst(_, _)
SortDescendingLastFirst(seq, scores) ==
    IF seq = << >> THEN << >>
    ELSE LET i == LastMaxIndex(seq, scores)
         IN  << seq[i] >> \o SortDescendingLastFirst(RemoveAt(seq, i), scores)

\* sorted(items, key=score, reverse=True): descending by score, and stable,
\* so items of equal score keep the order they have in the dictionary
RECURSIVE SortDescendingStable(_, _)
SortDescendingStable(seq, scores) ==
    IF seq = << >> THEN << >>
    ELSE LET i == FirstMaxIndex(seq, scores)
         IN  << seq[i] >> \o SortDescendingStable(RemoveAt(seq, i), scores)

\* mutant: sorted(items, key=score)[::-1], which puts the last of equals first
SortedEmotions_Reversed(scores) == SortDescendingLastFirst(EMOTIONS, scores)

SortedEmotions(scores) == SortDescendingStable(EMOTIONS, scores)

\* mutant: the last entry of the sorted list
PrimaryEmotion_Last(scores) == SortedEmotions(scores)[Len(EMOTIONS)]

PrimaryEmotion(scores) == SortedEmotions(scores)[1]

PrimaryConfidence(scores) == scores[SortedEmotions(scores)[1]]

\* mutant: score > threshold
\* (SelectSeq keeps the items that pass a test, in order: a list comprehension)
DetectedEmotions_Strict(scores, th) ==
    LET Above(e) == scores[e] > th IN SelectSeq(EMOTIONS, Above)

DetectedEmotions(scores, th) ==
    LET Above(e) == scores[e] >= th IN SelectSeq(EMOTIONS, Above)

SecondaryEmotions(detected, primary) ==
    LET Other(e) == e # primary IN SelectSeq(detected, Other)

HighConfidence == 80000
MediumConfidence == 50000

\* mutant: primary_confidence > 0.8
ConfidenceLevel_Strict(confidence) ==
    IF confidence > HighConfidence THEN "high"
    ELSE IF confidence >= MediumConfidence THEN "medium"
    ELSE "low"

ConfidenceLevel(confidence) ==
    IF confidence >= HighConfidence THEN "high"
    ELSE IF confidence >= MediumConfidence THEN "medium"
    ELSE "low"

\* the dictionary predict returns (without the entropy and the raw scores)
Predict(scores, th) ==
    LET primary_emotion == PrimaryEmotion(scores)
        primary_confidence == PrimaryConfidence(scores)
        detected_emotions == DetectedEmotions(scores, th)
    IN  [ outcome |-> "returned",
          emotions |-> scores,
          primary_emotion |-> primary_emotion,
          primary_confidence |-> primary_confidence,
          secondary_emotions |-> SecondaryEmotions(detected_emotions, primary_emotion),
          detected_emotions |-> detected_emotions,
          confidence_level |-> ConfidenceLevel(primary_confidence) ]

IsVerdict(p) == p.outcome = "returned"

PredictCall ==
    /\ prediction = NoValue
    /\ prediction' = IF ~loaded THEN Raised("RuntimeError")
                     ELSE Predict(emotion_scores, threshold)
    /\ UNCHANGED <<lateVars, loaded, emotion_scores, threshold, songs, match_results, insightVars, apiVars, explainVars>>

----------------------------------------------------------------------------
(* Verdict builder: predict applied to every bounded input *)

InitVerdict ==
    /\ loaded \in BOOLEAN
    /\ emotion_scores \in ScoreVectors
    /\ threshold \in ThresholdValues
    /\ prediction = NoValue
    /\ songs = << >>
    /\ match_results = << >>
    /\ InsightsIdle
    /\ ApiIdle
    /\ ExplainIdle
    /\ LateIdleBut("none")

NextVerdict == PredictCall

SpecVerdict == InitVerdict /\ [][NextVerdict]_vars

----------------------------------------------------------------------------
(* Song.get_emotion_list and _find_best_matching_song *)

\* dict.get(key, default)
Get(dict, key, default) == IF key \in DOMAIN dict THEN dict[key] ELSE default

\* the keys of a label -> score dictionary, in EMOTIONS order (the order in
\* which the migration fills the dictionary)
Keys(dict) == LET Present(e) == e \in DOMAIN dict IN SelectSeq(EMOTIONS, Present)

SeqSet(seq) == { seq[i] : i \in 1..Len(seq) }

RECURSIVE SumScores(_, _)
SumScores(seq, dict) ==
    IF seq = << >> THEN 0
    ELSE Get(dict, Head(seq), 0) + SumScores(Tail(seq), dict)

RECURSIVE Gcd(_, _)
Gcd(a, b) == IF b = 0 THEN a ELSE Gcd(b, a % b)

\* the quotient n / d of two lengths, d > 0, kept as a fraction in lowest terms
Ratio(n, d) == LET g == Gcd(n, d) IN [ num |-> n \div g, den |-> d \div g ]

Max(a, b) == IF a >= b THEN a ELSE b

BinaryThreshold == 50000

\* mutant: the label column alone, without the fall-back to the score map
GetEmotionList_ColumnOnly(song) ==
    IF song.emotions # None THEN song.emotions[1] ELSE << >>

\* Song.get_emotion_list: the label column when it is neither NULL nor empty,
\* otherwise the keys of the score map whose score is > 0.5
GetEmotionList(song) ==
    IF song.emotions # None /\ song.emotions[1] # << >>
    THEN song.emotions[1]
    ELSE LET Over(e) == song.emotion_scores[e] > BinaryThreshold
         IN  SelectSeq(Keys(song.emotion_scores), Over)

\* matched = [e for e in detected_emotions if e in song_emotions]
Matched(song, detected_emotions) ==
    LET song_emotions == GetEmotionList(song)
        InSong(e) == e \in SeqSet(song_emotions)
    IN  SelectSeq(detected_emotions, InSong)

\* weighted_score = sum(emotion_scores.get(e, 0) for e in matched)
WeightedScore(matched, scores) == SumScores(matched, scores)

\* best_song is an index into the catalog; NoSong is best_song = None
NoSong == 0

\* best_score = -1
InitialBestScore == -100000

InitialBest ==
    [ best_song |-> NoSong,
      best_score |-> InitialBestScore,
      best_matched_emotions |-> << >> ]

\* mutant: the weighted score is compared before the number of matches
Better_WeightFirst(catalog, i, match_count, weighted_score, best) ==
    \/ weighted_score > best.best_score
    \/ /\ weighted_score = best.best_score
       /\ match_count > Len(best.best_matched_emotions)
    \/ /\ match_count = Len(best.best_matched_emotions)
       /\ weighted_score = best.best_score
       /\ \/ best.best_song = NoSong
          \/ OrZero(catalog[i].times_played)
                 < OrZero(catalog[best.best_song].times_played)

\* mutant: <= on the play counts, so the last of equally played songs wins
Better_LastSeen(catalog, i, match_count, weighted_score, best) ==
    \/ match_count > Len(best.best_matched_emotions)
    \/ /\ match_count = Len(best.best_matched_emotions)
       /\ weighted_score > best.best_score
    \/ /\ match_count = Len(best.best_matched_emotions)
       /\ weighted_score = best.best_score
       /\ \/ best.best_song = NoSong
          \/ OrZero(catalog[i].times_played)
                 <= OrZero(catalog[best.best_song].times_played)

\* mutant: > on the play counts, so the most played of equal songs wins
Better_MostPlayed(catalog, i, match_count, weighted_score, best) ==
    \/ match_count > Len(best.best_matched_emotions)
    \/ /\ match_count = Len(best.best_matched_emotions)
       /\ weighted_score > best.best_score
    \/ /\ match_count = Len(best.best_matched_emotions)
       /\ weighted_score = best.best_score
       /\ \/ best.best_song = NoSong
          \/ OrZero(catalog[i].times_played)
                 > OrZero(catalog[best.best_song].times_played)

\* the condition under which the song at position i replaces the best so far
Better(catalog, i, match_count, weighted_score, best) ==
    \/ match_count > Len(best.best_matched_emotions)
    \/ /\ match_count = Len(best.best_matched_emotions)
       /\ weighted_score > best.best_score
    \/ /\ match_count = Len(best.best_matched_emotions)
       /\ weighted_score = best.best_score
       /\ \/ best.best_song = NoSong
          \/ OrZero(catalog[i].times_played)
                 < OrZero(catalog[best.best_song].times_played)

\* one iteration of "for song in songs"
LoopBody(catalog, i, detected_emotions, scores, best) ==
    LET matched == Matched(catalog[i], detected_emotions)
        match_count == Len(matched)
        weighted_score == WeightedScore(matched, scores)
    IN  IF Better(catalog, i, match_count, weighted_score, best)
        THEN [ best_song |-> i,
               best_score |-> weighted_score,
               best_matched_emotions |-> matched ]
        ELSE best

\* the loop over catalog[1..n]
RECURSIVE Loop(_, _, _, _)
Loop(catalog, n, detected_emotions, scores) ==
    IF n = 0 THEN InitialBest
    ELSE LoopBody(catalog, n, detected_emotions, scores,
                  Loop(catalog, n - 1, detected_emotions, scores))

\* mutant: best_score / max(len(detected_emotions), 1), the confidence-weighted
\* share (a score of 1.0 is 100000)
MatchScore_Weighted(best, detected_emotions) ==
    IF best.best_song # NoSong /\ best.best_matched_emotions # << >>
    THEN Ratio(best.best_score, 100000 * Max(Len(detected_emotions), 1))
    ELSE Ratio(0, 1)

\* the normalised score: matched labels / detected labels, or 0.0
MatchScore(best, detected_emotions) ==
    IF best.best_song # NoSong /\ best.best_matched_emotions # << >>
    THEN Ratio(Len(best.best_matched_emotions), Max(Len(detected_emotions), 1))
    ELSE Ratio(0, 1)

\* mutant: an empty catalog and a catalog without any match both give None
FindBestMatchingSong_NoneIfNoMatch(catalog, detected_emotions, scores) ==
    LET best == Loop(catalog, Len(catalog), detected_emotions, scores)
    IN  IF catalog = << >> \/ best.best_matched_emotions = << >>
        THEN [ song |-> NoSong, match_score |-> Ratio(0, 1), matched_emotions |-> << >> ]
        ELSE [ song |-> best.best_song,
               match_score |-> MatchScore(best, detected_emotions),
               matched_emotions |-> best.best_matched_emotions ]

\* _find_best_matching_song: the tuple (song, match_score, matched_emotions)
FindBestMatchingSong(catalog, detected_emotions, scores) ==
    IF catalog = << >>
    THEN [ song |-> NoSong, match_score |-> Ratio(0, 1), matched_emotions |-> << >> ]
    ELSE LET best == Loop(catalog, Len(catalog), detected_emotions, scores)
         IN  [ song |-> best.best_song,
               match_score |-> MatchScore(best, detected_emotions),
               matched_emotions |-> best.best_matched_emotions ]

\* mutant: the selection also counts a play of the winner
\* (song.times_played = (song.times_played or 0) + 1)
FindBestMatchingSongCall_Counting ==
    /\ IsVerdict(prediction)
    /\ Len(match_results) < 2
    /\ LET r == FindBestMatchingSong(songs, prediction.detected_emotions,
                                     prediction.emotions)
       IN  /\ match_results' = Append(match_results, r)
           /\ songs' = IF r.song = NoSong THEN songs
                       ELSE [ songs EXCEPT ![r.song].times_played =
                                  Some(OrZero(songs[r.song].times_played) + 1) ]
    /\ UNCHANGED <<lateVars, loaded, emotion_scores, threshold, prediction, insightVars, apiVars, explainVars>>

\* a call of _find_best_matching_song(db, prediction["detected_emotions"],
\* prediction["emotions"]); the function assigns to no attribute of a song
FindBestMatchingSongCall ==
    /\ IsVerdict(prediction)
    /\ Len(match_results) < 2
    /\ match_results' =
           Append(match_results,
                  FindBestMatchingSong(songs, prediction.detected_emotions,
                                       prediction.emotions))
    /\ UNCHANGED <<lateVars, loaded, emotion_scores, threshold, prediction, songs, insightVars, apiVars, explainVars>>

----------------------------------------------------------------------------
(* Catalog matcher: predict, then _find_best_matching_song, on bounded
   texts and catalogs *)

MaxSongs == 3

\* label column and score map of the rows the CSV migration writes: the
\* column lists exactly the labels whose score is > 0.5
MigratedKinds ==
    { [ emotions |-> Some(<< "Happiness" >>),
        emotion_scores |-> [ e \in {"Happiness", "Love"} |->
                                 IF e = "Happiness" THEN 90000 ELSE 20000 ] ],
      [ emotions |-> Some(<< "Happiness", "Love" >>),
        emotion_scores |-> [ e \in {"Happiness", "Love"} |-> 80000 ] ],
      [ emotions |-> Some(<< "Contentment", "Sadness", "Optimism" >>),
        emotion_scores |-> [ e \in {"Contentment", "Sadness", "Optimism"} |-> 70000 ] ],
      [ emotions |-> Some(<< >>),
        emotion_scores |-> [ e \in {"Happiness"} |-> 50000 ] ] }

\* a row whose label column is NULL while its score map has entries
NullColumnKinds ==
    { [ emotions |-> None,
        emotion_scores |-> [ e \in {"Happiness", "Love"} |->
                                 IF e = "Happiness" THEN 90000 ELSE 50000 ] ] }

Row(kind, played) ==
    [ emotions |-> kind.emotions,
      emotion_scores |-> kind.emotion_scores,
      times_played |-> played,
      total_matches |-> Some(0) ]

\* the migration always stores a play count; a NULL play count comes with
\* rows written otherwise. The songs labelled Happiness come played 5 and 50
\* times, the others 5 times.
SongRows ==
    { Row(k, Some(5)) : k \in MigratedKinds }
    \cup
    { Row(k, Some(50)) :
        k \in { m \in MigratedKinds : m.emotions # Some(<< >>)
                                      /\ m.emotions[1][1] = "Happiness" } }
    \cup
    { Row(k, p) : k \in NullColumnKinds, p \in { None, Some(0) } }

Catalogs == UNION { [ 1..n -> SongRows ] : n \in 0..MaxSongs }

\* the score vector of a text: the scores of Happiness, Love, Contentment,
\* Sadness and Optimism, every other label at 0.1
TextScores(h, l, c, s, o) ==
    [ e \in Labels |-> IF e = "Happiness" THEN h
                       ELSE IF e = "Love" THEN l
                       ELSE IF e = "Contentment" THEN c
                       ELSE IF e = "Sadness" THEN s
                       ELSE IF e = "Optimism" THEN o
                       ELSE 10000 ]

MatchTexts ==
    { TextScores(90000, 70000, 10000, 10000, 10000),
      TextScores(70000, 10000, 10000, 10000, 70000),
      TextScores(90000, 10000, 10000, 10000, 70000),
      TextScores(30000, 30000, 30000, 30000, 30000),
      TextScores(90000, 90000, 50000, 50000, 50000) }

\* predict(request.text) is called without a threshold argument
DefaultThreshold == 50000

InitMatch ==
    /\ loaded = TRUE
    /\ emotion_scores \in MatchTexts
    /\ threshold = DefaultThreshold
    /\ prediction = NoValue
    /\ songs \in Catalogs
    /\ match_results = << >>
    /\ InsightsIdle
    /\ ApiIdle
    /\ ExplainIdle
    /\ LateIdleBut("none")

NextMatch == PredictCall \/ FindBestMatchingSongCall

SpecMatch == InitMatch /\ [][NextMatch]_vars

----------------------------------------------------------------------------
(* Properties of the verdict builder, checked under SpecVerdict *)

\* strictly ascending by position in EMOTIONS: in EMOTIONS order, no repetition
InEmotionsOrder(seq) ==
    \A i, j \in 1..Len(seq) : i < j => IndexOf(seq[i]) < IndexOf(seq[j])

\* C1: the primary emotion of every verdict is a label whose score is >= the
\* score of every label; among the labels that share that maximum it is the
\* one that comes earliest in EMOTIONS; primary_confidence is its score.
C1_PrimaryIsFirstMaximum ==
    IsVerdict(prediction) =>
        LET p == prediction.primary_emotion
        IN  /\ p \in Labels
            /\ \A e \in Labels : emotion_scores[e] <= emotion_scores[p]
            /\ \A e \in Labels :
                   emotion_scores[e] = emotion_scores[p] => IndexOf(p) <= IndexOf(e)
            /\ prediction.primary_confidence = emotion_scores[p]

\* a verdict in which a later label ties with the primary one for the maximum
C1_Witness ==
    /\ IsVerdict(prediction)
    /\ \E e \in Labels :
           /\ e # prediction.primary_emotion
           /\ emotion_scores[e] = prediction.primary_confidence
           /\ prediction.primary_confidence > 0

\* C2: detected_emotions is exactly the labels with score >= threshold, in
\* EMOTIONS order without repetition; secondary_emotions is detected_emotions
\* without the primary label, in the same relative order.
C2_DetectedAndSecondary ==
    IsVerdict(prediction) =>
        LET d == prediction.detected_emotions
            s == prediction.secondary_emotions
            p == prediction.primary_emotion
        IN  /\ SeqSet(d) = { e \in Labels : emotion_scores[e] >= threshold }
            /\ InEmotionsOrder(d)
            /\ SeqSet(s) = SeqSet(d) \ {p}
            /\ InEmotionsOrder(s)

\* a verdict with a label exactly at the threshold, and a secondary label
\* listed after the primary one
C2_Witness ==
    /\ IsVerdict(prediction)
    /\ \E e \in Labels : emotion_scores[e] = threshold
    /\ Len(prediction.secondary_emotions) >= 2
    /\ Len(prediction.detected_emotions) = Len(prediction.secondary_emotions) + 1
    /\ prediction.detected_emotions[1] # prediction.primary_emotion

\* C3: the primary label is defined whatever the threshold is; it is among
\* detected_emotions whenever primary_confidence >= threshold, so a non-empty
\* detected_emotions always contains it.
C3_PrimaryDetected ==
    IsVerdict(prediction) =>
        /\ prediction.primary_emotion \in Labels
        /\ prediction.primary_confidence >= threshold
               => prediction.primary_emotion \in SeqSet(prediction.detected_emotions)
        /\ prediction.detected_emotions # << >>
               => prediction.primary_emotion \in SeqSet(prediction.detected_emotions)

\* a verdict whose primary confidence is exactly the threshold while other
\* labels are below it
C3_Witness ==
    /\ IsVerdict(prediction)
    /\ prediction.primary_confidence = threshold
    /\ prediction.detected_emotions = << prediction.primary_emotion >>

\* C4: confidence_level is a function of primary_confidence alone: high from
\* 0.8 on, medium from 0.5 up to (not including) 0.8, low below 0.5; 0.8 gives
\* high, 0.5 gives medium and 0.79999 gives medium.
C4_ConfidenceLevel ==
    IsVerdict(prediction) =>
        LET c == prediction.primary_confidence
            level == prediction.confidence_level
        IN  /\ (level = "high") <=> (c >= 80000)
            /\ (level = "medium") <=> (50000 <= c /\ c < 80000)
            /\ (level = "low") <=> (c < 50000)
            /\ c = 79999 => level = "medium"

\* a verdict whose primary confidence is exactly 0.8
C4_Witness ==
    /\ IsVerdict(prediction)
    /\ prediction.primary_confidence = 80000
    /\ prediction.confidence_level = "high"

----------------------------------------------------------------------------
(* Properties of the catalog matcher, checked under SpecMatch *)

Detected == prediction.detected_emotions

\* the ranking keys of the song at position i for the detected labels
MatchCount(i) == Len(Matched(songs[i], Detected))
Weighted(i) == WeightedScore(Matched(songs[i], Detected), prediction.emotions)
Plays(i) == IF songs[i].times_played = None THEN 0 ELSE songs[i].times_played[1]

Positions == 1..Len(songs)

\* the songs with the largest number of matches, and among them those with
\* the largest weighted score
MostMatches == { i \in Positions : \A j \in Positions : MatchCount(j) <= MatchCount(i) }
TopRanked == { i \in MostMatches : \A j \in MostMatches : Weighted(j) <= Weighted(i) }

Results == { match_results[k] : k \in 1..Len(match_results) }

\* the labels of the running example
ItemA == { "Happiness" }
ItemB == { "Happiness", "Love" }

ExampleCatalog(a, b) ==
    /\ Len(songs) = 2
    /\ Detected = << "Happiness", "Love" >>
    /\ prediction.emotions["Happiness"] = 90000
    /\ prediction.emotions["Love"] = 70000
    /\ SeqSet(GetEmotionList(songs[a])) = ItemA /\ songs[a].times_played = Some(50)
    /\ SeqSet(GetEmotionList(songs[b])) = ItemB /\ songs[b].times_played = Some(5)

\* C5: the winner is ranked by the number of matched labels first and by the
\* weighted score second, whatever the play counts are: a song with strictly
\* more matched labels than every other song wins, and among the songs with
\* the most matched labels one with a strictly greater weighted score than
\* the others wins. For detected [Happiness, Love] scored 0.9 and 0.7, item A
\* {Happiness} played 50 times and item B {Happiness, Love} played 5 times,
\* the winner is B with match_score 1.0.
C5_CountThenWeight ==
    \A r \in Results :
        /\ \A i \in Positions :
               (\A j \in Positions \ {i} : MatchCount(j) < MatchCount(i))
                   => r.song = i
        /\ \A i \in MostMatches :
               (\A j \in MostMatches \ {i} : Weighted(j) < Weighted(i))
                   => r.song = i
        /\ \A a, b \in Positions :
               ExampleCatalog(a, b)
                   => r.song = b /\ r.match_score = [ num |-> 1, den |-> 1 ]

\* the running example, with A listed before B, after the selection
C5_Witness ==
    /\ match_results # << >>
    /\ ExampleCatalog(1, 2)
    /\ match_results[1].song = 2

\* C6: among the songs that have the maximum number of matched labels and
\* the maximum weighted score, the winner has the lowest play count (NULL
\* counting as 0), and is the first in catalog order of those with that play
\* count; so for every catalog length, also when no song matches any label.
C6_LeastPlayedThenFirst ==
    \A r \in Results :
        songs # << >> =>
            /\ r.song \in TopRanked
            /\ \A j \in TopRanked : Plays(r.song) <= Plays(j)
            /\ \A j \in TopRanked : Plays(j) = Plays(r.song) => r.song <= j

\* three songs none of which matches a label: the winner is the second, tied
\* with the third on the play count and played less than the first
C6_Witness ==
    /\ match_results # << >>
    /\ Len(songs) = 3
    /\ \A i \in Positions : MatchCount(i) = 0
    /\ match_results[1].song = 2
    /\ Plays(2) = Plays(3)
    /\ Plays(2) < Plays(1)
    /\ songs[2].times_played # songs[3].times_played

\* the label column of a song, NULL read as empty
ColumnLabels(song) ==
    IF song.emotions = None THEN {} ELSE SeqSet(song.emotions[1])

\* the labels of a song: its label column, or when that is NULL or empty the
\* labels its score map rates above 0.5
AssociatedLabels(song) ==
    IF ColumnLabels(song) # {} THEN ColumnLabels(song)
    ELSE { e \in DOMAIN song.emotion_scores : song.emotion_scores[e] > 50000 }

\* seq lists exactly the detected labels that are in the set, in detected order
IsDetectedWithin(seq, set) ==
    /\ SeqSet(seq) = SeqSet(Detected) \cap set
    /\ InEmotionsOrder(seq)

\* C7 as claimed: the matched labels of the winner are the detected labels in
\* the song's label column, so a song with an empty label column has no
\* matched label and coverage 0 whatever its score map contains.
C7_MatchedFromColumn ==
    \A r \in Results :
        r.song # NoSong =>
            /\ IsDetectedWithin(r.matched_emotions, ColumnLabels(songs[r.song]))
            /\ ColumnLabels(songs[r.song]) = {} => r.match_score.num = 0

\* C7 as amended: the matched labels used for ranking and reported for the
\* winner are the detected labels among the song's labels, in detected order,
\* where the song's labels are its label column, or when that is NULL or
\* empty the labels its score map rates above 0.5; a song for which that set
\* is empty has no matched label and coverage 0.
C7_MatchedFromEmotionList ==
    \A r \in Results :
        r.song # NoSong =>
            /\ IsDetectedWithin(r.matched_emotions, AssociatedLabels(songs[r.song]))
            /\ \A j \in Positions :
                   Cardinality(SeqSet(Detected) \cap AssociatedLabels(songs[j]))
                       <= Len(r.matched_emotions)
            /\ AssociatedLabels(songs[r.song]) = {}
                   => r.matched_emotions = << >> /\ r.match_score.num = 0

\* a song with a NULL label column wins with a matched label taken from its
\* score map, ahead of a song with an empty column and no score above 0.5
C7_Witness ==
    /\ match_results # << >>
    /\ Len(songs) = 2
    /\ songs[1].emotions = Some(<< >>)
    /\ songs[2].emotions = None
    /\ match_results[1].song = 2
    /\ match_results[1].matched_emotions = << "Happiness" >>

\* C8: match_score = (matched labels of the winner) / max(detected labels, 1),
\* a value in [0,1] that is 0 exactly when the winner matched no label; it is
\* a ratio of two counts, not of confidence scores.
C8_MatchScoreIsCoverage ==
    \A r \in Results :
        LET m == r.match_score
        IN  /\ m.den > 0
            /\ m.num * Max(Len(Detected), 1) = Len(r.matched_emotions) * m.den
            /\ 0 <= m.num /\ m.num <= m.den
            /\ (m.num = 0) <=> (r.matched_emotions = << >>)

\* a winner that matches two of five detected labels
C8_Witness ==
    /\ match_results # << >>
    /\ Len(Detected) = 5
    /\ Len(match_results[1].matched_emotions) = 2
    /\ match_results[1].match_score = [ num |-> 2, den |-> 5 ]

\* C9: the result is the absence value (no song, score 0.0, no matched label)
\* exactly when the catalog is empty; a non-empty catalog always yields a
\* winner, also when no song shares a label with the detected ones or no
\* label was detected.
C9_AbsenceIffEmptyCatalog ==
    \A r \in Results :
        /\ (r.song = NoSong) <=> (songs = << >>)
        /\ r.song # NoSong => r.song \in Positions
        /\ r.song = NoSong
               => r.match_score = [ num |-> 0, den |-> 1 ] /\ r.matched_emotions = << >>

\* a non-empty catalog and a text with no detected label: a song is returned
C9_Witness ==
    /\ match_results # << >>
    /\ songs # << >>
    /\ Detected = << >>
    /\ match_results[1].song \in Positions
    /\ match_results[1].match_score = [ num |-> 0, den |-> 1 ]

\* C10: a call of the selection function changes no stored song (no counter,
\* no rating), and a second call right after the first returns the identical
\* winner, matched labels and match_score.
C10_SelectionHasNoEffect ==
    [][ match_results' # match_results =>
            /\ songs' = songs
            /\ match_results # << >> =>
                   match_results'[Len(match_results')] = match_results[Len(match_results)]
      ]_vars

\* two calls made, the winner being the first of two songs that are level on
\* every key, the play count included
C10_Witness ==
    /\ Len(match_results) = 2
    /\ match_results[1] = match_results[2]
    /\ Len(songs) = 2
    /\ songs[1] = songs[2]
    /\ match_results[2].song = 1
    /\ match_results[2].matched_emotions # << >>

----------------------------------------------------------------------------
(* Mood patterns: get_mood_patterns (backend/app/api/v1/endpoints/         *)
(* insights.py).  An analysis of the window carries what the handler reads *)
(* of it: the weekday name and the hour of created_at, whether created_at  *)
(* is at or after one_week_ago, primary_emotion and emotional_complexity.  *)

\* the keys of a dictionary filled from s: its distinct elements, in the
\* order of their first appearance
RECURSIVE FirstAppearances(_)
FirstAppearances(s) ==
    IF s = << >> THEN << >>
    ELSE LET rest == FirstAppearances(SubSeq(s, 1, Len(s) - 1))
             x == s[Len(s)]
         IN  IF x \in SeqSet(rest) THEN rest ELSE Append(rest, x)

Count(s, x) == Cardinality({ i \in 1..Len(s) : s[i] = x })

\* Counter(emotions).most_common(1)[0] for the label that only leads the list
MostCommon_First(emotions) ==
    [ emotion |-> emotions[1], count |-> Count(emotions, emotions[1]) ]

\* Counter(emotions).most_common(1)[0]: the label counted most often, the
\* one seen first among those level on the count
MostCommon(emotions) ==
    LET keys == FirstAppearances(emotions)
        best == CHOOSE i \in 1..Len(keys) :
                    /\ \A j \in 1..Len(keys) :
                           Count(emotions, keys[j]) <= Count(emotions, keys[i])
                    /\ \A j \in 1..(i - 1) :
                           Count(emotions, keys[j]) < Count(emotions, keys[i])
    IN  [ emotion |-> keys[best], count |-> Count(emotions, keys[best]) ]

\* round(num / den): the nearest integer, the even one of two equally near
Round(num, den) ==
    LET q == num \div den
        r == num % den
    IN  IF 2 * r < den THEN q
        ELSE IF 2 * r > den THEN q + 1
        ELSE IF q % 2 = 0 THEN q ELSE q + 1

\* the weekday of an analysis, as strftime("%A") names it
WeekdayOf(a) == a.weekday

\* the part of the day of an analysis
DayPeriod(hour) ==
    IF 5 <= hour /\ hour < 12 THEN "morning"
    ELSE IF 12 <= hour /\ hour < 17 THEN "afternoon"
    ELSE IF 17 <= hour /\ hour < 21 THEN "evening"
    ELSE "night"

PeriodOf(a) == DayPeriod(a.hour)

\* the primary labels of a list of analyses, in its order
PrimaryEmotions(list) == [ i \in 1..Len(list) |-> list[i].primary_emotion ]

\* weekday_emotions: weekday -> primary labels, the keys in insertion order
WeekdayKeys(win) == FirstAppearances([ i \in 1..Len(win) |-> WeekdayOf(win[i]) ])
WeekdayEmotions(win, day) ==
    LET OnDay(a) == WeekdayOf(a) = day
    IN  PrimaryEmotions(SelectSeq(win, OnDay))

\* hour_emotions: day period -> primary labels, the keys in insertion order
PeriodKeys(win) == FirstAppearances([ i \in 1..Len(win) |-> PeriodOf(win[i]) ])
PeriodEmotions(win, period) ==
    LET InPeriod(a) == PeriodOf(a) = period
    IN  PrimaryEmotions(SelectSeq(win, InPeriod))

\* weekday_dominant, an entry per weekday of the window
WeekdayDominant(win) ==
    LET keys == WeekdayKeys(win)
    IN  [ i \in 1..Len(keys) |->
            LET emotions == WeekdayEmotions(win, keys[i])
                dominant == MostCommon(emotions)
            IN  [ day |-> keys[i],
                  emotion |-> dominant.emotion,
                  frequency |-> dominant.count,
                  percentage |-> Round(dominant.count * 100, Len(emotions)) ] ]

\* the weekday with the most analyses, the last one inserted among level ones
MostEntries_LastSeen(win) ==
    LET keys == WeekdayKeys(win)
        Entries(i) == Len(WeekdayEmotions(win, keys[i]))
    IN  keys[CHOOSE i \in 1..Len(keys) :
                 /\ \A j \in 1..Len(keys) : Entries(j) <= Entries(i)
                 /\ \A j \in (i + 1)..Len(keys) : Entries(j) < Entries(i)]

\* max(weekday_emotions.items(), key=len of the list): the weekday with the
\* most analyses, the first one inserted among level ones
MostEntries(win) ==
    LET keys == WeekdayKeys(win)
        Entries(i) == Len(WeekdayEmotions(win, keys[i]))
    IN  keys[CHOOSE i \in 1..Len(keys) :
                 /\ \A j \in 1..Len(keys) : Entries(j) <= Entries(i)
                 /\ \A j \in 1..(i - 1) : Entries(j) < Entries(i)]

\* period_insights, an entry per day period of the window
PeriodInsights(win) ==
    LET keys == PeriodKeys(win)
    IN  [ i \in 1..Len(keys) |->
            LET dominant == MostCommon(PeriodEmotions(win, keys[i]))
            IN  [ period |-> keys[i],
                  emotion |-> dominant.emotion,
                  count |-> dominant.count ] ]

\* the labels the trend counts as positive
PositiveEmotions ==
    { "Happiness", "Excitement", "Love", "Contentment", "Optimism", "Confidence" }

RecentAnalyses(win) == LET Recent(a) == a.recent IN SelectSeq(win, Recent)
OlderAnalyses(win) == LET Older(a) == ~a.recent IN SelectSeq(win, Older)

CountPositive(list) ==
    Cardinality({ i \in 1..Len(list) : list[i].primary_emotion \in PositiveEmotions })

\* The two ratios and their difference are double-precision numbers.  A
\* double has MantissaBits bits after its leading one; for a ratio of at
\* least 2^-ScaleBits every rounding error below is a whole multiple of 1/n
\* in units of 2^-(MantissaBits + ScaleBits).
MantissaBits == 52
ScaleBits == 6

RECURSIVE Pow2(_)
Pow2(k) == IF k = 0 THEN 1 ELSE 2 * Pow2(k - 1)

\* 2^k modulo n
RECURSIVE Pow2Mod(_, _)
Pow2Mod(k, n) == IF k = 0 THEN 1 % n ELSE (2 * Pow2Mod(k - 1, n)) % n

\* the e with 2^-e <= p/n < 2^-(e-1), for 0 < p <= n
BinaryExponent(p, n) ==
    CHOOSE e \in 0..ScaleBits :
        /\ p * Pow2(e) >= n
        /\ e = 0 \/ p * Pow2(e - 1) < n

\* n times (the double nearest to p/n, less p/n), in the units above
RoundingError(p, n) ==
    IF p = 0 THEN 0
    ELSE LET e == BinaryExponent(p, n)
             r == (p * Pow2Mod(MantissaBits + e, n)) % n
             s == IF 2 * r < n THEN 0 - r ELSE n - r
         IN  s * Pow2(ScaleBits - e)

\* abs(p/n - q/m) > 0.1 as the doubles decide it.  Apart from an exact
\* difference of one tenth the rounding errors are too small to matter; at
\* one tenth the difference of the two doubles has to lie more than half a
\* unit in the last place above the double nearest to 0.1 (whose last bit
\* is even) to round above it.
ExceedsTenth(p, n, q, m) ==
    LET d == p * m - q * n
        a == IF d < 0 THEN 0 - d ELSE d
        sign == IF d > 0 THEN 1 ELSE 0 - 1
    IN  IF 10 * a # n * m THEN 10 * a > n * m
        ELSE sign * (RoundingError(p, n) * m - RoundingError(q, m) * n) * 10
                 > (RoundingError(1, 10) + 10 * Pow2(ScaleBits - 5)) * n * m

\* "if recent_analyses and older_analyses": left out
BothHalves_Unchecked(recent, older) == TRUE

\* "if recent_analyses and older_analyses"
BothHalves(recent, older) == recent # << >> /\ older # << >>

\* the trend insight, or nothing
TrendInsight(win) ==
    LET recent == RecentAnalyses(win)
        older == OlderAnalyses(win)
        recent_positive == CountPositive(recent)
        older_positive == CountPositive(older)
    IN  IF /\ BothHalves(recent, older)
           /\ ExceedsTenth(recent_positive, Len(recent), older_positive, Len(older))
        THEN << [ type |-> "trend",
                  direction |->
                      IF recent_positive * Len(older) > older_positive * Len(recent)
                      THEN "more positive" ELSE "more reflective" ] >>
        ELSE << >>

\* sum(a.emotional_complexity or 0 for a in analyses)
RECURSIVE SumComplexity(_)
SumComplexity(list) ==
    IF list = << >> THEN 0
    ELSE OrZero(list[1].emotional_complexity) + SumComplexity(Tail(list))

ComplexityLimit == 60000

\* the complexity insight, or nothing
ComplexityInsight(win) ==
    IF SumComplexity(win) > ComplexityLimit * Len(win)
    THEN << [ type |-> "complexity" ] >>
    ELSE << >>

WeekdayInsight(win) ==
    LET weekday_dominant == WeekdayDominant(win)
        day == MostEntries(win)
    IN  IF weekday_dominant # << >>
        THEN << [ type |-> "weekday_pattern",
                  day |-> day,
                  times |-> Len(WeekdayEmotions(win, day)),
                  data |-> weekday_dominant ] >>
        ELSE << >>

TimeInsight(win) ==
    LET period_insights == PeriodInsights(win)
    IN  IF period_insights # << >>
        THEN << [ type |-> "time_pattern", data |-> period_insights ] >>
        ELSE << >>

\* the insights in an order that puts the trend first
Insights_TrendFirst(win) ==
    TrendInsight(win) \o WeekdayInsight(win) \o TimeInsight(win)
        \o ComplexityInsight(win)

\* the insights, in the order the handler appends them
Insights(win) ==
    WeekdayInsight(win) \o TimeInsight(win) \o TrendInsight(win)
        \o ComplexityInsight(win)

\* the divisors of the handler's divisions, in the order it divides
Divisors(win) ==
    LET keys == WeekdayKeys(win)
        recent == RecentAnalyses(win)
        older == OlderAnalyses(win)
    IN  [ i \in 1..Len(keys) |-> Len(WeekdayEmotions(win, keys[i])) ]
        \o (IF BothHalves(recent, older) THEN << Len(recent), Len(older) >> ELSE << >>)
        \o << Len(win) >>


\* "if not analyses"
NoAnalyses(win) == win = << >>

\* what get_mood_patterns answers for the analyses its query returned
MoodPatterns(win) ==
    IF NoAnalyses(win)
    THEN [ outcome |-> "returned", has_data |-> FALSE, insights |-> << >>,
           divisors |-> << >> ]
    ELSE IF \E i \in 1..Len(Divisors(win)) : Divisors(win)[i] = 0
    THEN Raised("ZeroDivisionError")
    ELSE [ outcome |-> "returned", has_data |-> TRUE,
           total_analyses |-> Len(win), insights |-> Insights(win),
           divisors |-> Divisors(win) ]

GetMoodPatterns ==
    /\ patterns = NoValue
    /\ patterns' = MoodPatterns(window)
    /\ UNCHANGED <<lateVars, loaded, songs, matchVars, window, apiVars, explainVars>>

----------------------------------------------------------------------------
(* Mood patterns: the windows explored *)

\* longest window whose analyses vary freely
MaxWindow == 3
\* largest recent and older halves of the windows that vary the two shares
MaxRecent == 5
MaxOlder == 10

WindowWeekdays == { "Monday", "Friday" }
WindowHours == { 4, 5, 16, 17 }
WindowEmotions == { "Happiness", "Sadness" }
WindowComplexities == { None, Some(25000), Some(100000) }

\* an analysis of the last seven days; its complexity goes with its label
FreeAnalyses ==
    { [ weekday |-> d, hour |-> h, recent |-> TRUE, primary_emotion |-> e,
        emotional_complexity |-> IF e = "Happiness" THEN Some(100000) ELSE None ] :
      d \in WindowWeekdays, h \in WindowHours, e \in WindowEmotions }

FreeWindows == UNION { [ 1..n -> FreeAnalyses ] : n \in 0..MaxWindow }

\* n analyses of one half, the first `positive` of them with a positive label
Half(n, positive, weekday, hour, recent, complexity) ==
    [ i \in 1..n |->
        [ weekday |-> weekday, hour |-> hour, recent |-> recent,
          primary_emotion |-> IF i <= positive THEN "Happiness" ELSE "Sadness",
          emotional_complexity |-> complexity ] ]

\* the older analyses come first: the query orders by created_at
ShareWindows ==
    { Half(m, q, "Monday", 21, FALSE, c) \o Half(n, p, "Friday", 11, TRUE, c) :
      << m, q, n, p >> \in { t \in (0..MaxOlder) \X (0..MaxOlder) \X (0..MaxRecent) \X (0..MaxRecent) :
                               t[2] <= t[1] /\ t[4] <= t[3] },
      c \in WindowComplexities }

InitInsights ==
    /\ window \in FreeWindows \cup ShareWindows
    /\ patterns = NoValue
    /\ loaded = TRUE
    /\ songs = << >>
    /\ MatchIdle
    /\ ApiIdle
    /\ ExplainIdle
    /\ LateIdleBut("none")

NextInsights == GetMoodPatterns

SpecInsights == InitInsights /\ [][NextInsights]_vars

----------------------------------------------------------------------------
(* Mood patterns: what the claims speak of *)

\* the handler has answered
Answered == patterns.outcome = "returned"

HasInsight(type) ==
    \E i \in 1..Len(patterns.insights) : patterns.insights[i].type = type

InsightOf(type) ==
    patterns.insights[CHOOSE i \in 1..Len(patterns.insights) :
                          patterns.insights[i].type = type]

\* the positions of the window in one half, and those with a positive label
RecentPositions == { i \in 1..Len(window) : window[i].recent }
OlderPositions == { i \in 1..Len(window) : ~window[i].recent }
PositiveIn(positions) ==
    { i \in positions :
        window[i].primary_emotion \in
            { "Happiness", "Excitement", "Love", "Contentment", "Optimism",
              "Confidence" } }

\* recent share minus older share, times the product of the two half sizes
ShareGap ==
    Cardinality(PositiveIn(RecentPositions)) * Cardinality(OlderPositions)
        - Cardinality(PositiveIn(OlderPositions)) * Cardinality(RecentPositions)

AbsShareGap == IF ShareGap < 0 THEN 0 - ShareGap ELSE ShareGap

HalvesProduct == Cardinality(RecentPositions) * Cardinality(OlderPositions)

\* C12: a trend insight is present if and only if both halves of the window
\* are non-empty and the shares of positive labels differ by strictly more
\* than 0.10 (a difference of exactly 0.10 gives none), and its direction is
\* "more positive" when the recent share is the larger one and "more
\* reflective" otherwise.
C12_TrendIffGapAboveTenth ==
    Answered =>
        /\ HasInsight("trend") <=>
               /\ RecentPositions # {}
               /\ OlderPositions # {}
               /\ 10 * AbsShareGap > HalvesProduct
        /\ HasInsight("trend") =>
               InsightOf("trend").direction =
                   IF ShareGap > 0 THEN "more positive" ELSE "more reflective"

\* the weekdays of the window and the number of verdicts of each
WindowDays == { window[i].weekday : i \in 1..Len(window) }
VerdictsOn(day) == Cardinality({ i \in 1..Len(window) : window[i].weekday = day })
BusiestDays == { d \in WindowDays : \A o \in WindowDays : VerdictsOn(o) <= VerdictsOn(d) }
FirstVerdictOn(day) == CHOOSE i \in 1..Len(window) :
                           /\ window[i].weekday = day
                           /\ \A j \in 1..(i - 1) : window[j].weekday # day

AlphabeticalWeekdays ==
    << "Friday", "Monday", "Saturday", "Sunday", "Thursday", "Tuesday",
       "Wednesday" >>
AlphabeticalRank(day) == CHOOSE k \in 1..Len(AlphabeticalWeekdays) :
                             AlphabeticalWeekdays[k] = day

\* C13 as stated: the weekday_pattern insight names a weekday with the
\* largest number of verdicts, and of several such weekdays the one whose
\* name is alphabetically first.
C13_BusiestDayAlphabetical ==
    Answered /\ HasInsight("weekday_pattern") =>
        /\ InsightOf("weekday_pattern").day \in BusiestDays
        /\ \A d \in BusiestDays :
               AlphabeticalRank(InsightOf("weekday_pattern").day) <= AlphabeticalRank(d)

\* C13: the weekday_pattern insight names a weekday with the largest number
\* of verdicts, and of several such weekdays the one whose first verdict is
\* the earliest of the window; it reports that weekday's number of verdicts.
C13_BusiestDayFirstSeen ==
    Answered /\ HasInsight("weekday_pattern") =>
        /\ InsightOf("weekday_pattern").day \in BusiestDays
        /\ \A d \in BusiestDays :
               FirstVerdictOn(InsightOf("weekday_pattern").day) <= FirstVerdictOn(d)
        /\ InsightOf("weekday_pattern").times = VerdictsOn(InsightOf("weekday_pattern").day)

\* two weekdays level on the count, the one seen first being the later one
\* in the alphabet
C13_Witness ==
    /\ Answered
    /\ Len(window) = 2
    /\ window[1].weekday = "Monday"
    /\ window[2].weekday = "Friday"
    /\ BusiestDays = { "Monday", "Friday" }
    /\ InsightOf("weekday_pattern").day = "Monday"

\* C14: for an empty window the answer has has_data = false, no insight and
\* no division; for a non-empty window it has has_data = true and every
\* division made (per weekday, recent share, older share, mean complexity)
\* has a divisor other than zero.  No call ends in an error.
C14_NoDataOrSafeDivisions ==
    patterns # NoValue =>
        /\ Answered
        /\ window = << >> =>
               /\ ~patterns.has_data
               /\ patterns.insights = << >>
               /\ patterns.divisors = << >>
        /\ window # << >> =>
               /\ patterns.has_data
               /\ \A i \in 1..Len(patterns.divisors) : patterns.divisors[i] > 0
               /\ Len(patterns.divisors) >= Cardinality(WindowDays) + 1

\* a window with only recent verdicts answered with data: the division by
\* the size of the older half is not made
C14_Witness ==
    /\ Answered
    /\ patterns.has_data
    /\ OlderPositions = {}
    /\ RecentPositions # {}
    /\ Len(patterns.divisors) = Cardinality(WindowDays) + 1

InsightOrder == << "weekday_pattern", "time_pattern", "trend", "complexity" >>
OrderRank(type) == CHOOSE k \in 1..Len(InsightOrder) : InsightOrder[k] = type

RECURSIVE SumOfComplexities(_)
SumOfComplexities(positions) ==
    IF positions = {} THEN 0
    ELSE LET i == CHOOSE j \in positions : TRUE
         IN  (IF window[i].emotional_complexity = None THEN 0
              ELSE window[i].emotional_complexity[1])
             + SumOfComplexities(positions \ { i })

\* C15: the insights are listed in the order weekday_pattern, time_pattern,
\* trend, complexity with at most one of each type; a non-empty window has
\* both the weekday_pattern and the time_pattern insight; a trend insight
\* needs two non-empty halves whose shares differ by a tenth or more, and a
\* complexity insight a mean complexity above 0.6.
C15_FixedOrderOfInsights ==
    Answered =>
        /\ \A i \in 1..Len(patterns.insights) :
               patterns.insights[i].type \in SeqSet(InsightOrder)
        /\ \A i, j \in 1..Len(patterns.insights) :
               i < j => OrderRank(patterns.insights[i].type)
                            < OrderRank(patterns.insights[j].type)
        /\ window # << >> => HasInsight("weekday_pattern") /\ HasInsight("time_pattern")
        /\ HasInsight("trend") =>
               /\ RecentPositions # {}
               /\ OlderPositions # {}
               /\ 10 * AbsShareGap >= HalvesProduct
        /\ HasInsight("complexity") =>
               SumOfComplexities(1..Len(window)) > 60000 * Len(window)

\* all four insights in one answer
C15_Witness ==
    /\ Answered
    /\ Len(patterns.insights) = 4
    /\ patterns.insights[3].type = "trend"
    /\ patterns.insights[4].type = "complexity"

\* the hours of each part of the day
HoursOf(period) ==
    CASE period = "morning" -> 5..11
      [] period = "afternoon" -> 12..16
      [] period = "evening" -> 17..20
      [] period = "night" -> (21..23) \cup (0..4)

DayParts == { "morning", "afternoon", "evening", "night" }

OnWeekday(day) == { i \in 1..Len(window) : window[i].weekday = day }
InDayPart(period) == { i \in 1..Len(window) : window[i].hour \in HoursOf(period) }

LabelCount(positions, label) ==
    Cardinality({ i \in positions : window[i].primary_emotion = label })

IsModal(positions, label) ==
    /\ LabelCount(positions, label) > 0
    /\ \A i \in positions :
           LabelCount(positions, window[i].primary_emotion) <= LabelCount(positions, label)

\* the share count / total as a percentage, rounded to the nearest integer
IsRoundedShare(percentage, count, total) ==
    /\ 2 * (100 * count - percentage * total) <= total
    /\ 2 * (percentage * total - 100 * count) <= total

WeekdayEntries ==
    { InsightOf("weekday_pattern").data[k] :
        k \in 1..Len(InsightOf("weekday_pattern").data) }
DayPartEntries ==
    { InsightOf("time_pattern").data[k] :
        k \in 1..Len(InsightOf("time_pattern").data) }

\* C16 as stated: for every non-empty weekday partition and every non-empty
\* day-part partition the insight data reports the modal primary label, its
\* count and its share of the partition's total.
C16_ModalCountShareEverywhere ==
    Answered /\ window # << >> =>
        /\ \A d \in WindowDays :
               \E e \in WeekdayEntries :
                   /\ e.day = d
                   /\ IsModal(OnWeekday(d), e.emotion)
                   /\ e.frequency = LabelCount(OnWeekday(d), e.emotion)
                   /\ "percentage" \in DOMAIN e
                   /\ IsRoundedShare(e.percentage, e.frequency, Cardinality(OnWeekday(d)))
        /\ \A p \in DayParts :
               InDayPart(p) # {} =>
                   \E e \in DayPartEntries :
                       /\ e.period = p
                       /\ IsModal(InDayPart(p), e.emotion)
                       /\ e.count = LabelCount(InDayPart(p), e.emotion)
                       /\ "percentage" \in DOMAIN e
                       /\ IsRoundedShare(e.percentage, e.count, Cardinality(InDayPart(p)))

\* C16: for every non-empty weekday partition the data reports one entry
\* with the modal primary label, its count and its share of the partition
\* as a rounded percentage; for every non-empty day-part partition it reports
\* one entry with the modal primary label and its count, and no share.
C16_ModalAndCount ==
    Answered /\ window # << >> =>
        /\ Len(InsightOf("weekday_pattern").data) = Cardinality(WindowDays)
        /\ \A d \in WindowDays :
               \E e \in WeekdayEntries :
                   /\ e.day = d
                   /\ IsModal(OnWeekday(d), e.emotion)
                   /\ e.frequency = LabelCount(OnWeekday(d), e.emotion)
                   /\ IsRoundedShare(e.percentage, e.frequency, Cardinality(OnWeekday(d)))
        /\ Len(InsightOf("time_pattern").data)
               = Cardinality({ p \in DayParts : InDayPart(p) # {} })
        /\ \A p \in DayParts :
               InDayPart(p) # {} =>
                   \E e \in DayPartEntries :
                       /\ e.period = p
                       /\ IsModal(InDayPart(p), e.emotion)
                       /\ e.count = LabelCount(InDayPart(p), e.emotion)
                       /\ DOMAIN e = { "period", "emotion", "count" }

\* a weekday and a day part whose modal label is not the label seen first
C16_Witness ==
    /\ Answered
    /\ Len(window) = 3
    /\ window[1].primary_emotion = "Sadness"
    /\ \A i \in 1..3 : window[i].weekday = "Friday" /\ window[i].hour = 17
    /\ WeekdayEntries =
           { [ day |-> "Friday", emotion |-> "Happiness", frequency |-> 2,
               percentage |-> 67 ] }
    /\ DayPartEntries = { [ period |-> "evening", emotion |-> "Happiness", count |-> 2 ] }

----------------------------------------------------------------------------
(* The HTTP endpoints that build verdicts and recommendations              *)
(* (backend/app/api/v1/endpoints/emotions.py and recommendations.py), the  *)
(* request schemas that guard them, and the manager they obtain            *)
(* (ModelManager.get_instance).  A text is given by the scores the model   *)
(* produces for it; a stored row is named by its position in its table.    *)

\* the manager's state after ModelManager.get_instance(), and whether the
\* call raised: the first call creates the instance and loads the model,
\* and a failed load leaves the instance in place and re-raises
GetInstance(inst, is_loaded, load_succeeds) ==
    IF inst = None
    THEN [ instance |-> Some("ModelManager"),
           loaded |-> load_succeeds,
           raised |-> ~load_succeeds ]
    ELSE [ instance |-> inst, loaded |-> is_loaded, raised |-> FALSE ]

\* the application's startup: get_instance() with its exception swallowed.
\* It runs before the first request, if the server runs it at all.
Lifespan ==
    /\ instance = None
    /\ response = NoValue
    /\ \E load_succeeds \in BOOLEAN :
           LET manager == GetInstance(instance, loaded, load_succeeds)
           IN  /\ instance' = manager.instance
               /\ loaded' = manager.loaded
    /\ UNCHANGED <<lateVars, songs, matchVars, insightVars, analyses, recommendations,
                   response, explainVars>>

\* an HTTP response
Answer(operation, status, body) ==
    [ outcome |-> "answered", operation |-> operation, status |-> status,
      body |-> body ]

\* int(confidence * 100), for the confidences explored
ConfidencePercent(confidence) == confidence \div 1000

\* secondary_emotions[:3]
FirstThree(list) == SubSeq(list, 1, IF Len(list) < 3 THEN Len(list) ELSE 3)

\* _generate_explanation: what the sentence states
GenerateExplanation(primary_emotion, confidence, secondary_emotions, confidence_level) ==
    [ primary_emotion |-> primary_emotion,
      confidence_percent |-> ConfidencePercent(confidence),
      secondary_emotions |-> FirstThree(secondary_emotions),
      tone |-> IF confidence_level = "high" THEN "clear and well-defined"
               ELSE IF confidence_level = "medium" THEN "a blend of feelings"
               ELSE "subtle or mixed" ]

ExplanationOf(verdict) ==
    GenerateExplanation(verdict.primary_emotion, verdict.primary_confidence,
                        verdict.secondary_emotions, verdict.confidence_level)

\* EmotionAnalysisRequest.threshold: Field(0.5, ge=0.0, le=1.0)
ThresholdInRange(th) == 0 <= th /\ th <= 100000

\* the EmotionAnalysis row the handlers store
AnalysisRow(user_id, verdict, explanation) ==
    [ user_id |-> user_id,
      emotions |-> verdict.emotions,
      primary_emotion |-> verdict.primary_emotion,
      primary_confidence |-> verdict.primary_confidence,
      secondary_emotions |-> verdict.secondary_emotions,
      confidence_level |-> verdict.confidence_level,
      explanation |-> explanation ]

\* the body of an EmotionAnalysisResponse
AnalysisBody(id, threshold_used, verdict, explanation) ==
    [ id |-> id, threshold |-> threshold_used, verdict |-> verdict,
      explanation |-> explanation ]

\* longest tables explored
MaxAnalyses == 1
MaxRecommendations == 2

\* the texts of the explored requests: one scored Happiness 0.9 and Love
\* 0.6, one scored Sadness 0.9
HappyText == TextScores(90000, 60000, 10000, 10000, 10000)
SadText == TextScores(10000, 10000, 10000, 90000, 10000)
ApiTexts == { HappyText, SadText }
ApiThresholds == { -10000, 50000, 80000, 150000 }

\* model_manager.predict(text, threshold) of a loaded manager, for the
\* texts and thresholds of the explored requests
Predictions ==
    { [ text |-> call[1], threshold |-> call[2], verdict |-> Predict(call[1], call[2]) ] :
      call \in ApiTexts \X ApiThresholds }

PredictionOf(text, th) ==
    (CHOOSE p \in Predictions : p.text = text /\ p.threshold = th).verdict

\* POST /emotions/analyze
AnalyzeEmotions(request, current_user, load_succeeds) ==
    IF ~ThresholdInRange(request.threshold)
    THEN /\ response' = Answer("analyze", 422, [ threshold |-> request.threshold ])
         /\ UNCHANGED <<loaded, instance, analyses>>
    ELSE LET manager == GetInstance(instance, loaded, load_succeeds)
             verdict == PredictionOf(request.text, request.threshold)
             explanation == IF request.include_explanation
                            THEN Some(ExplanationOf(verdict)) ELSE None
             saved == current_user # None
         IN  /\ instance' = manager.instance
             /\ loaded' = manager.loaded
             /\ IF manager.raised
                THEN /\ response' = Answer("analyze", 500, [ threshold |-> request.threshold ])
                     /\ UNCHANGED analyses
                ELSE IF ~manager.loaded
                THEN /\ response' = Answer("analyze", 503, [ threshold |-> request.threshold ])
                     /\ UNCHANGED analyses
                ELSE /\ saved => Len(analyses) < MaxAnalyses
                     /\ analyses' = IF saved
                                    THEN Append(analyses,
                                                AnalysisRow(current_user[1], verdict, explanation))
                                    ELSE analyses
                     /\ response' =
                            Answer("analyze", 200,
                                   AnalysisBody(IF saved THEN Some(Len(analyses) + 1) ELSE None,
                                                request.threshold, verdict, explanation))

AnalyzeEmotionsCall ==
    /\ \E request \in
             { [ text |-> HappyText, threshold |-> 50000, include_explanation |-> TRUE ],
               [ text |-> HappyText, threshold |-> 80000, include_explanation |-> FALSE ],
               [ text |-> SadText, threshold |-> -10000, include_explanation |-> FALSE ],
               [ text |-> HappyText, threshold |-> 150000, include_explanation |-> TRUE ] },
          current_user \in { None, Some("alice") },
          load_succeeds \in BOOLEAN :
           AnalyzeEmotions(request, current_user, load_succeeds)
    /\ UNCHANGED <<lateVars, songs, matchVars, insightVars, recommendations, explainVars>>

\* POST /emotions/analyze/batch: the threshold of EmotionBatchRequest has no
\* range, the handler has no try block, and nothing is stored
AnalyzeEmotionsBatch(request, load_succeeds) ==
    LET manager == GetInstance(instance, loaded, load_succeeds)
    IN  /\ instance' = manager.instance
        /\ loaded' = manager.loaded
        /\ response' =
               IF manager.raised
               THEN Answer("batch", 500, [ threshold |-> request.threshold ])
               ELSE IF ~manager.loaded
               THEN Answer("batch", 503, [ threshold |-> request.threshold ])
               ELSE Answer("batch", 200,
                      [ threshold |-> request.threshold,
                        results |->
                          [ i \in 1..Len(request.texts) |->
                              LET verdict == PredictionOf(request.texts[i], request.threshold)
                              IN  AnalysisBody(None, request.threshold, verdict,
                                               IF request.include_explanation
                                               THEN Some(ExplanationOf(verdict))
                                               ELSE None) ] ])

AnalyzeEmotionsBatchCall ==
    /\ \E request \in
             { [ texts |-> << HappyText >>, threshold |-> 50000,
                 include_explanation |-> FALSE ],
               [ texts |-> << SadText, HappyText >>, threshold |-> 150000,
                 include_explanation |-> TRUE ],
               [ texts |-> << SadText >>, threshold |-> -10000,
                 include_explanation |-> FALSE ] },
          load_succeeds \in BOOLEAN :
           AnalyzeEmotionsBatch(request, load_succeeds)
    /\ UNCHANGED <<lateVars, songs, matchVars, insightVars, analyses, recommendations, explainVars>>

\* int(match_score * 100)
ScorePercent(match_score) == (match_score.num * 100) \div match_score.den

\* _generate_recommendation_explanation: what explanation and why_this_song state
GenerateRecommendationExplanation(song, primary_emotion, matched_emotions, match_score) ==
    LET reasons ==
            (IF matched_emotions # << >> THEN << "matches_mood" >> ELSE << >>)
            \o (IF Len(matched_emotions) > 1 THEN << "covers_several" >> ELSE << >>)
            \o (IF song.average_rating # None
                   /\ song.average_rating[1].num >= 4 * song.average_rating[1].den
                THEN << "highly_rated" >> ELSE << >>)
            \o (IF OrZero(song.times_played) > 10 THEN << "popular" >> ELSE << >>)
    IN  [ explanation |->
              IF matched_emotions = << >> THEN [ template |-> "complement" ]
              ELSE [ template |-> IF Len(matched_emotions) > 1 THEN "compatibility"
                                  ELSE "match",
                     score_percent |-> ScorePercent(match_score),
                     emotions |-> matched_emotions ],
          why_this_song |->
              IF reasons = << >> THEN << "selected_to_match" >> ELSE reasons,
          primary_emotion |-> primary_emotion ]

\* the winner's counters after a recommendation that counts the match only
CountRecommendation_MatchOnly(song) ==
    [ song EXCEPT !.total_matches = Some(OrZero(song.total_matches) + 1) ]

\* "Update song play count": the winner's counters after a recommendation
CountRecommendation(song) ==
    [ song EXCEPT !.times_played = Some(OrZero(song.times_played) + 1),
                  !.total_matches = Some(OrZero(song.total_matches) + 1) ]

\* POST /recommendations
GetRecommendation(request, current_user, load_succeeds) ==
    LET manager == GetInstance(instance, loaded, load_succeeds)
        verdict == PredictionOf(request.text, DefaultThreshold)
        found == FindBestMatchingSong(songs, verdict.detected_emotions, verdict.emotions)
        explained == IF request.include_explanation
                     THEN Some(GenerateRecommendationExplanation(
                                   songs[found.song], verdict.primary_emotion,
                                   found.matched_emotions, found.match_score))
                     ELSE None
        saved == current_user # None /\ request.save_to_history
        recommendation ==
            [ user_id |-> current_user,
              analysis_id |-> IF saved THEN Some(Len(analyses) + 1) ELSE None,
              song_id |-> found.song,
              match_score |-> found.match_score,
              matched_emotions |-> found.matched_emotions,
              explanation |-> explained,
              feedback_rating |-> None,
              feedback_text |-> None,
              was_played |-> 0,
              was_saved |-> 0,
              feedback_at |-> None ]
    IN  /\ instance' = manager.instance
        /\ loaded' = manager.loaded
        /\ IF manager.raised
           THEN /\ response' = Answer("recommend", 500, << >>)
                /\ UNCHANGED <<songs, analyses, recommendations>>
           ELSE IF ~manager.loaded
           THEN /\ response' = Answer("recommend", 503, << >>)
                /\ UNCHANGED <<songs, analyses, recommendations>>
           ELSE IF found.song = NoSong
           THEN /\ response' = Answer("recommend", 404, << >>)
                /\ UNCHANGED <<songs, analyses, recommendations>>
           ELSE /\ Len(recommendations) < MaxRecommendations
                /\ saved => Len(analyses) < MaxAnalyses
                /\ analyses' = IF saved
                               THEN Append(analyses,
                                           AnalysisRow(current_user[1], verdict, None))
                               ELSE analyses
                /\ recommendations' = Append(recommendations, recommendation)
                /\ songs' = [ songs EXCEPT ![found.song] = CountRecommendation(@) ]
                /\ response' =
                       Answer("recommend", 200,
                              [ id |-> Len(recommendations) + 1,
                                song |-> songs'[found.song],
                                match_score |-> found.match_score,
                                matched_emotions |-> found.matched_emotions,
                                explanation |-> explained,
                                emotion_analysis |->
                                    IF saved THEN Some(verdict) ELSE None ])

GetRecommendationCall ==
    /\ \E request \in
             { [ text |-> HappyText,
                 include_explanation |-> TRUE, save_to_history |-> TRUE ],
               [ text |-> SadText,
                 include_explanation |-> FALSE, save_to_history |-> FALSE ] },
          current_user \in { None, Some("alice") },
          load_succeeds \in BOOLEAN :
           GetRecommendation(request, current_user, load_succeeds)
    /\ UNCHANGED <<lateVars, matchVars, insightVars, explainVars>>

\* func.avg(Recommendation.feedback_rating) over the rated recommendations
\* of a song, as float(...) or None
RECURSIVE SumRatings(_, _)
SumRatings(table, song_id) ==
    IF table = << >> THEN [ sum |-> 0, count |-> 0 ]
    ELSE LET rest == SumRatings(Tail(table), song_id)
             row == table[1]
         IN  IF row.song_id = song_id /\ row.feedback_rating # None
             THEN [ sum |-> rest.sum + row.feedback_rating[1], count |-> rest.count + 1 ]
             ELSE rest

AverageRating(table, song_id) ==
    LET ratings == SumRatings(table, song_id)
    IN  IF ratings.count = 0 THEN None ELSE Some(Ratio(ratings.sum, ratings.count))

\* submit_feedback that looks the recommendation up by its id alone
SubmitFeedback_AnyOwner(recommendation_id, feedback, current_user, autoflush) ==
    IF recommendation_id \notin 1..Len(recommendations)
    THEN /\ response' = Answer("feedback", 404, << >>)
         /\ UNCHANGED <<songs, recommendations>>
    ELSE /\ recommendations' =
                [ recommendations EXCEPT
                    ![recommendation_id].feedback_rating = Some(feedback.rating) ]
         /\ response' = Answer("feedback", 200, [ rating |-> feedback.rating ])
         /\ UNCHANGED songs

\* POST /recommendations/{recommendation_id}/feedback, by a signed-in user.
\* The average is queried after the row was changed in the session: whether
\* the query sees the change is the session's autoflush setting.
SubmitFeedback(recommendation_id, feedback, current_user, autoflush) ==
    IF \/ recommendation_id \notin 1..Len(recommendations)
       \/ recommendations[recommendation_id].user_id # Some(current_user)
    THEN /\ response' = Answer("feedback", 404, << >>)
         /\ UNCHANGED <<songs, recommendations>>
    ELSE LET updated ==
                 [ recommendations EXCEPT
                     ![recommendation_id] =
                         [ @ EXCEPT !.feedback_rating = Some(feedback.rating),
                                    !.feedback_text = feedback.feedback_text,
                                    !.was_played = IF feedback.was_played THEN 1 ELSE 0,
                                    !.was_saved = IF feedback.was_saved THEN 1 ELSE 0,
                                    !.feedback_at = Some("now") ] ]
             song_id == recommendations[recommendation_id].song_id
         IN  /\ recommendations' = updated
             /\ songs' = [ songs EXCEPT ![song_id].average_rating =
                             AverageRating(IF autoflush THEN updated ELSE recommendations,
                                           song_id) ]
             /\ response' = Answer("feedback", 200, [ rating |-> feedback.rating ])

SubmitFeedbackCall ==
    /\ \E recommendation_id \in 1..MaxRecommendations,
          feedback \in { [ rating |-> 5, feedback_text |-> None,
                           was_played |-> TRUE, was_saved |-> FALSE ],
                         [ rating |-> 2, feedback_text |-> Some("text"),
                           was_played |-> FALSE, was_saved |-> TRUE ] },
          autoflush \in BOOLEAN :
           SubmitFeedback(recommendation_id, feedback, "alice", autoflush)
    /\ UNCHANGED <<lateVars, loaded, matchVars, insightVars, instance, analyses, explainVars>>

\* a song row with its rating column
RatedRow(kind, played) == Row(kind, played) @@ [ average_rating |-> None ]

ApiCatalogs ==
    { << >>,
      << RatedRow([ emotions |-> Some(<< "Happiness", "Love" >>),
                    emotion_scores |-> [ e \in {"Happiness", "Love"} |-> 80000 ] ],
                  Some(5)),
         RatedRow([ emotions |-> Some(<< "Happiness", "Love" >>),
                    emotion_scores |-> [ e \in {"Happiness", "Love"} |-> 80000 ] ],
                  Some(5)) >> }

InitApi ==
    /\ instance = None
    /\ loaded = FALSE
    /\ songs \in ApiCatalogs
    /\ analyses = << >>
    /\ recommendations = << >>
    /\ response = NoValue
    /\ MatchIdle
    /\ InsightsIdle
    /\ ExplainIdle
    /\ LateIdleBut("none")

NextApi ==
    \/ Lifespan
    \/ AnalyzeEmotionsCall
    \/ AnalyzeEmotionsBatchCall
    \/ GetRecommendationCall
    \/ SubmitFeedbackCall

SpecApi == InitApi /\ [][NextApi]_vars

----------------------------------------------------------------------------
(* The endpoints: what the claims speak of *)

\* the step stored a new recommendation, for the song WinnerOfStep
RecommendationProduced == Len(recommendations') = Len(recommendations) + 1
WinnerOfStep == recommendations'[Len(recommendations')].song_id

\* the step recorded feedback that says the song was played
PlaybackRecorded ==
    /\ Len(recommendations') = Len(recommendations)
    /\ \E k \in 1..Len(recommendations) :
           /\ recommendations'[k] # recommendations[k]
           /\ recommendations'[k].was_played = 1

\* C11 as stated: producing a recommendation adds 1 to the winner's
\* total_matches and changes no other usage counter, the winner's
\* times_played included; a times_played changes only in a step that
\* records feedback with was_played true.
C11_OnlyMatchCounter ==
    [][ /\ RecommendationProduced =>
               \A i \in 1..Len(songs) :
                   /\ songs'[i].times_played = songs[i].times_played
                   /\ OrZero(songs'[i].total_matches)
                          = OrZero(songs[i].total_matches)
                                + (IF i = WinnerOfStep THEN 1 ELSE 0)
        /\ (\E i \in 1..Len(songs) : songs'[i].times_played # songs[i].times_played)
               => PlaybackRecorded
      ]_vars

\* C11: producing a recommendation adds 1 to the winner's total_matches and
\* 1 to the winner's times_played, and changes no counter of another song;
\* no other step (recording feedback, with was_played true or false,
\* included) changes a times_played or a total_matches.
C11_WinnerCountersOnly ==
    [][ /\ RecommendationProduced =>
               \A i \in 1..Len(songs) :
                   IF i = WinnerOfStep
                   THEN /\ songs'[i].times_played = Some(OrZero(songs[i].times_played) + 1)
                        /\ songs'[i].total_matches = Some(OrZero(songs[i].total_matches) + 1)
                   ELSE /\ songs'[i].times_played = songs[i].times_played
                        /\ songs'[i].total_matches = songs[i].total_matches
        /\ ~RecommendationProduced =>
               \A i \in 1..Len(songs) :
                   /\ songs'[i].times_played = songs[i].times_played
                   /\ songs'[i].total_matches = songs[i].total_matches
      ]_vars

\* one recommendation of the first song, played 5 times before, and feedback
\* saying it was played: the play counter stands at 6, the other song's at 5
C11_Witness ==
    /\ Len(recommendations) = 1
    /\ recommendations[1].song_id = 1
    /\ recommendations[1].was_played = 1
    /\ songs[1].times_played = Some(6)
    /\ songs[1].total_matches = Some(1)
    /\ songs[2].times_played = Some(5)
    /\ songs[2].total_matches = Some(0)

\* C17: no verdict is built with a threshold outside [0,1]: an analyze or
\* batch request whose threshold is below 0 or above 1 is not answered with
\* verdicts.
C17_NoVerdictOutsideUnitThreshold ==
    /\ response.outcome = "answered"
    /\ response.operation \in { "analyze", "batch" }
    /\ response.body.threshold < 0 \/ response.body.threshold > 100000
    => response.status # 200

\* C18: a well-formed single-analyze, batch-analyze or recommendation
\* request that ends with the model not loaded is answered with status 503,
\* and stores no analysis, no recommendation and changes no song.
C18_UnavailableIs503 ==
    [][ /\ response'.outcome = "answered"
        /\ response'.operation \in { "analyze", "batch", "recommend" }
        /\ response'.status # 422
        /\ ~loaded'
        => /\ response'.status = 503
           /\ UNCHANGED <<songs, analyses, recommendations>>
      ]_vars

----------------------------------------------------------------------------
(* Explanations: EmotionExplainer (backend/app/ml/explainer.py) and        *)
(* EmotionService.analyze (backend/app/services/emotion_service.py).  The  *)
(* SHAP library is an outside party: creating its explainer and computing  *)
(* its values each succeed or raise.                                       *)

\* model_manager.predict(text, threshold)
ManagerPredict(is_loaded, text, th) ==
    IF ~is_loaded THEN Raised("RuntimeError") ELSE PredictionOf(text, th)

\* the sentence of _generate_basic_explanation
BasicSentence(predicted) ==
    [ template |-> "basic",
      primary_emotion |-> predicted.primary_emotion,
      confidence_percent |-> ConfidencePercent(predicted.primary_confidence),
      secondary_emotions |-> FirstThree(predicted.secondary_emotions) ]

\* "self.model_manager.predict(text) if self.model_manager.is_loaded() else
\* None" without the condition
BasicPrediction_Unguarded(is_loaded, text) ==
    ManagerPredict(is_loaded, text, DefaultThreshold)

\* "self.model_manager.predict(text) if self.model_manager.is_loaded() else None"
BasicPrediction(is_loaded, text) ==
    IF is_loaded THEN ManagerPredict(is_loaded, text, DefaultThreshold)
    ELSE [ outcome |-> "none" ]

\* _generate_basic_explanation
GenerateBasicExplanation(is_loaded, text) ==
    LET predicted == BasicPrediction(is_loaded, text)
    IN  IF predicted.outcome = "raised" THEN predicted
        ELSE [ outcome |-> "returned",
               word_importance |-> << >>,
               explanation |-> IF predicted.outcome = "returned"
                               THEN BasicSentence(predicted)
                               ELSE [ template |-> "unable" ],
               top_contributing_words |-> << >>,
               shap_available |-> FALSE ]

\* EmotionExplainer._initialized after _initialize_explainer()
InitializeExplainer(shap_available, was_initialized, init_succeeds) ==
    IF ~shap_available THEN was_initialized
    ELSE IF was_initialized THEN TRUE
    ELSE init_succeeds

\* the result of explain when SHAP has computed its values
ShapExplanation(is_loaded, text, target_emotion) ==
    LET predicted == ManagerPredict(is_loaded, text, DefaultThreshold)
    IN  IF predicted.outcome = "raised"
        THEN GenerateBasicExplanation(is_loaded, text)
        ELSE [ outcome |-> "returned",
               word_importance |-> << [ words |-> "of the text",
                                        emotion |-> target_emotion ] >>,
               explanation |->
                   [ template |-> "shap",
                     primary_emotion |-> predicted.primary_emotion,
                     confidence_percent |-> ConfidencePercent(predicted.primary_confidence),
                     secondary_emotions |->
                         SubSeq(predicted.secondary_emotions, 1,
                                IF Len(predicted.secondary_emotions) < 2
                                THEN Len(predicted.secondary_emotions) ELSE 2) ],
               top_contributing_words |-> << "at most five words" >>,
               shap_available |-> TRUE ]

\* EmotionExplainer.explain: its result and the explainer's state after it
Explain(shap_available, is_loaded, was_initialized, text, target_emotion, init_succeeds, shap_succeeds) ==
    IF ~shap_available \/ ~is_loaded
    THEN [ result |-> GenerateBasicExplanation(is_loaded, text),
           initialized |-> was_initialized ]
    ELSE LET now_initialized ==
                 InitializeExplainer(shap_available, was_initialized, init_succeeds)
         IN  [ result |-> IF ~now_initialized
                          THEN GenerateBasicExplanation(is_loaded, text)
                          ELSE IF ~shap_succeeds
                          THEN GenerateBasicExplanation(is_loaded, text)
                          ELSE ShapExplanation(is_loaded, text, target_emotion),
               initialized |-> now_initialized ]

\* what a call of explain met: the record kept of it
ExplainCall(shap_available, is_loaded, was_initialized, text, init_succeeds, shap_succeeds, result) ==
    [ text |-> text,
      shap_absent |-> ~shap_available,
      model_unloaded |-> ~is_loaded,
      init_failed |-> shap_available /\ is_loaded /\ ~was_initialized /\ ~init_succeeds,
      shap_raised |-> /\ shap_available /\ is_loaded
                      /\ (was_initialized \/ init_succeeds)
                      /\ ~shap_succeeds,
      result |-> result ]

\* most calls of explain and of analyze explored
MaxExplainCalls == 2
MaxServiceCalls == 1

\* a direct call of get_explainer(model_manager).explain(text)
ExplainDirectly ==
    /\ instance # None
    /\ Len(explanations) < MaxExplainCalls
    /\ \E text \in ApiTexts, init_succeeds \in BOOLEAN, shap_succeeds \in BOOLEAN :
           LET call == Explain(SHAP_AVAILABLE, loaded, initialized, text, None,
                               init_succeeds, shap_succeeds)
           IN  /\ initialized' = call.initialized
               /\ explanations' =
                      Append(explanations,
                             ExplainCall(SHAP_AVAILABLE, loaded, initialized, text,
                                         init_succeeds, shap_succeeds, call.result))
    /\ UNCHANGED <<lateVars, loaded, songs, matchVars, insightVars, apiVars, SHAP_AVAILABLE,
                   service_results>>

\* EmotionService.analyze(text, threshold, include_explanation)
ServiceAnalyze(text, th, include_explanation, load_succeeds, init_succeeds, shap_succeeds) ==
    LET manager == GetInstance(instance, loaded, load_succeeds)
        predicted == ManagerPredict(manager.loaded, text, th)
        call == Explain(SHAP_AVAILABLE, manager.loaded, initialized, text,
                        Some(predicted.primary_emotion), init_succeeds, shap_succeeds)
        request == [ text |-> text, threshold |-> th,
                     include_explanation |-> include_explanation ]
    IN  /\ instance' = manager.instance
        /\ loaded' = manager.loaded
        /\ IF manager.raised
           THEN /\ service_results' =
                       Append(service_results,
                              [ request |-> request, result |-> Raised("load error") ])
                /\ UNCHANGED <<initialized, explanations>>
           ELSE IF ~manager.loaded
           THEN /\ service_results' =
                       Append(service_results,
                              [ request |-> request, result |-> Raised("RuntimeError") ])
                /\ UNCHANGED <<initialized, explanations>>
           ELSE IF ~include_explanation
           THEN /\ service_results' =
                       Append(service_results,
                              [ request |-> request,
                                result |-> predicted
                                               @@ [ explanation |-> None,
                                                    word_importance |-> None ] ])
                /\ UNCHANGED <<initialized, explanations>>
           ELSE /\ Len(explanations) < MaxExplainCalls
                /\ initialized' = call.initialized
                /\ explanations' =
                       Append(explanations,
                              ExplainCall(SHAP_AVAILABLE, manager.loaded, initialized, text,
                                          init_succeeds, shap_succeeds, call.result))
                /\ service_results' =
                       Append(service_results,
                              [ request |-> request,
                                result |->
                                    IF call.result.outcome = "raised" THEN call.result
                                    ELSE predicted
                                             @@ [ explanation |-> Some(call.result.explanation),
                                                  word_importance |->
                                                      IF call.result.word_importance = << >>
                                                      THEN None
                                                      ELSE Some(call.result.word_importance) ] ])

ServiceAnalyzeCall ==
    /\ Len(service_results) < MaxServiceCalls
    /\ \E text \in { HappyText }, th \in { 50000, 80000 },
          include_explanation \in BOOLEAN, load_succeeds \in BOOLEAN,
          init_succeeds \in BOOLEAN, shap_succeeds \in BOOLEAN :
           ServiceAnalyze(text, th, include_explanation, load_succeeds,
                          init_succeeds, shap_succeeds)
    /\ UNCHANGED <<lateVars, songs, matchVars, insightVars, analyses, recommendations, response,
                   SHAP_AVAILABLE>>

InitExplain ==
    /\ SHAP_AVAILABLE \in BOOLEAN
    /\ initialized = FALSE
    /\ explanations = << >>
    /\ service_results = << >>
    /\ loaded = FALSE
    /\ songs = << >>
    /\ MatchIdle
    /\ InsightsIdle
    /\ ApiIdle
    /\ LateIdleBut("none")

NextExplain == Lifespan \/ ExplainDirectly \/ ServiceAnalyzeCall

SpecExplain == InitExplain /\ [][NextExplain]_vars

----------------------------------------------------------------------------
(* Explanations: what the claims speak of *)

\* the fallback result of explain
IsFallback(result) ==
    /\ result.outcome = "returned"
    /\ ~result.shap_available
    /\ result.word_importance = << >>
    /\ result.top_contributing_words = << >>
    /\ result.explanation.template \in { "basic", "unable" }

\* C19: no call of explain ends in an error; a call made with the SHAP
\* library absent, with the model not loaded, with an explainer that cannot
\* be initialised or with a SHAP computation that raises returns the
\* fallback result, whatever calls came before it; any other call returns
\* the SHAP result.
C19_ExplainNeverRaises ==
    \A k \in 1..Len(explanations) :
        LET call == explanations[k]
            degraded == \/ call.shap_absent
                        \/ call.model_unloaded
                        \/ call.init_failed
                        \/ call.shap_raised
        IN  /\ call.result.outcome = "returned"
            /\ degraded => IsFallback(call.result)
            /\ ~degraded => call.result.shap_available

\* a call that SHAP served, then a call whose SHAP computation raised
C19_Witness ==
    /\ Len(explanations) = 2
    /\ explanations[1].result.shap_available
    /\ explanations[2].shap_raised
    /\ IsFallback(explanations[2].result)
    /\ explanations[2].result.explanation.template = "basic"

\* C20: when analyze was asked for an explanation and received the fallback
\* summary, the summary names the primary label, the confidence percentage
\* and the first (at most 3) secondary labels of the EmotionResult the same
\* call returned, whatever threshold the call was given.
C20_FallbackFromResult ==
    \A k \in 1..Len(service_results) :
        LET request == service_results[k].request
            result == service_results[k].result
        IN  /\ request.include_explanation
            /\ result.outcome = "returned"
            /\ result.explanation[1].template = "basic"
            => /\ result.explanation[1].primary_emotion = result.primary_emotion
               /\ result.explanation[1].confidence_percent
                      = result.primary_confidence \div 1000
               /\ result.explanation[1].secondary_emotions
                      = SubSeq(result.secondary_emotions, 1,
                               IF Len(result.secondary_emotions) < 3
                               THEN Len(result.secondary_emotions) ELSE 3)

----------------------------------------------------------------------------
(* The percentage of a recommendation's explanation                        *)
(* (recommendations.py, _generate_recommendation_explanation), over every  *)
(* coverage the matcher can return: m matched labels of d detected ones,   *)
(* 1 <= m <= d <= len(EMOTIONS).                                           *)

\* every coverage with at least one matched label
Coverages ==
    { c \in [ matched : 1..Len(EMOTIONS), detected : 1..Len(EMOTIONS) ] :
          c.matched <= c.detected }

\* one song as the winner, little played or much played
PercentCatalogs ==
    { << RatedRow([ emotions |-> Some(<< "Happiness" >>),
                    emotion_scores |-> [ e \in {"Happiness"} |-> 80000 ] ],
                  Some(played)) >> : played \in {5, 11} }

InitPercent ==
    /\ loaded = FALSE
    /\ songs \in PercentCatalogs
    /\ coverage \in Coverages
    /\ rationale = NoValue
    /\ MatchIdle
    /\ InsightsIdle
    /\ ApiIdle
    /\ ExplainIdle
    /\ LateIdleBut("percent")

\* get_recommendation, lines 77-80: the explanation of the winner, for the
\* match_score len(matched) / max(len(detected), 1) the matcher returned
ExplainRecommendation ==
    /\ rationale = NoValue
    /\ LET matched_emotions == SubSeq(EMOTIONS, 1, coverage.matched)
           match_score == Ratio(coverage.matched, Max(coverage.detected, 1))
       IN  rationale' =
               [ outcome |-> "returned",
                 value |-> GenerateRecommendationExplanation(
                               songs[1], EMOTIONS[1], matched_emotions, match_score) ]
    /\ UNCHANGED <<loaded, songs, matchVars, insightVars, apiVars, explainVars,
                   coverage, lateButPercent>>

NextPercent == ExplainRecommendation

SpecPercent == InitPercent /\ [][NextPercent]_vars

\* C21: the percentage an explanation shows is the coverage m/d in percent,
\* rounded to the nearest whole number (2 of 3 labels gives 67)
C21_PercentIsRounded ==
    rationale.outcome = "returned" =>
        rationale.value.explanation.score_percent
            = Round(100 * coverage.matched, coverage.detected)

----------------------------------------------------------------------------
(* The life cycle of the manager (model_manager.py: __new__, get_instance, *)
(* _load_model, is_loaded) with the application's startup and its health   *)
(* endpoint (main.py).  A ModelManager object is named by the order of its *)
(* allocation: 1 is the first object the process allocated.                *)

\* __new__ that allocates an object at every construction
New_Always(inst, allocated) ==
    [ instance |-> Some(allocated + 1), allocated |-> allocated + 1 ]

\* ModelManager.__new__: cls._instance and the allocation count after it
New(inst, allocated) ==
    IF inst = None
    THEN [ instance |-> Some(allocated + 1), allocated |-> allocated + 1 ]
    ELSE [ instance |-> inst, allocated |-> allocated ]

\* _load_model that forgets the instance when the load fails
LoadModel_Discarding(inst, load_succeeds) ==
    [ instance |-> IF load_succeeds THEN inst ELSE None,
      loaded |-> load_succeeds,
      raised |-> ~load_succeeds ]

\* _load_model on the object get_instance stored in cls._instance: it sets
\* _loaded, and an exception of the load is re-raised
LoadModel(inst, load_succeeds) ==
    [ instance |-> inst, loaded |-> load_succeeds, raised |-> ~load_succeeds ]

\* ModelManager.get_instance(): the class state after it, how often the
\* load has run, and whether the call raised
GetInstanceOf(inst, allocated, is_loaded, runs, load_succeeds) ==
    IF inst = None
    THEN LET made == New(inst, allocated)
             load == LoadModel(made.instance, load_succeeds)
         IN  [ instance |-> load.instance,
               allocated |-> made.allocated,
               loaded |-> load.loaded,
               load_runs |-> runs + 1,
               raised |-> load.raised,
               returned |-> made.instance ]
    ELSE [ instance |-> inst, allocated |-> allocated, loaded |-> is_loaded,
           load_runs |-> runs, raised |-> FALSE, returned |-> inst ]

\* one entry of the record of calls
ManagerCall(op, outcome, value, is_loaded, runs, after_startup, answer) ==
    [ op |-> op, outcome |-> outcome, value |-> value, is_loaded |-> is_loaded,
      load_runs |-> runs, after_startup |-> after_startup, response |-> answer ]

MaxManagerCalls == 4

\* ModelManager(): __new__, then the inherited __init__, which does nothing
Construct ==
    /\ Len(manager_calls) < MaxManagerCalls
    /\ LET made == New(instance, objects)
       IN  /\ instance' = made.instance
           /\ objects' = made.allocated
           /\ manager_calls' =
                  Append(manager_calls,
                         ManagerCall("ModelManager", "returned", made.instance,
                                     loaded, load_runs, started, NoValue))
    /\ UNCHANGED <<loaded, songs, matchVars, insightVars, analyses,
                   recommendations, response, explainVars, lateButManager,
                   load_runs, started>>

\* ModelManager.get_instance() called by the program
GetInstanceCall ==
    /\ Len(manager_calls) < MaxManagerCalls
    /\ \E load_succeeds \in BOOLEAN :
           LET got == GetInstanceOf(instance, objects, loaded, load_runs, load_succeeds)
           IN  /\ instance' = got.instance
               /\ objects' = got.allocated
               /\ loaded' = got.loaded
               /\ load_runs' = got.load_runs
               /\ manager_calls' =
                      Append(manager_calls,
                             ManagerCall("get_instance",
                                         IF got.raised THEN "raised" ELSE "returned",
                                         IF got.raised THEN None ELSE got.returned,
                                         got.loaded, got.load_runs, started, NoValue))
    /\ UNCHANGED <<songs, matchVars, insightVars, analyses, recommendations,
                   response, explainVars, lateButManager, started>>

\* lifespan: get_instance() with its exception logged and swallowed, once
LifespanStartup ==
    /\ ~started
    /\ Len(manager_calls) < MaxManagerCalls
    /\ \E load_succeeds \in BOOLEAN :
           LET got == GetInstanceOf(instance, objects, loaded, load_runs, load_succeeds)
           IN  /\ instance' = got.instance
               /\ objects' = got.allocated
               /\ loaded' = got.loaded
               /\ load_runs' = got.load_runs
               /\ manager_calls' =
                      Append(manager_calls,
                             ManagerCall("lifespan", "returned", None,
                                         got.loaded, got.load_runs, TRUE, NoValue))
    /\ started' = TRUE
    /\ UNCHANGED <<songs, matchVars, insightVars, analyses, recommendations,
                   response, explainVars, lateButManager>>

\* health_check: the response of GET /health; an exception that leaves the
\* handler is answered 500
HealthCheck(got) ==
    IF got.raised
    THEN Answer("health_check", 500, [ detail |-> "Internal Server Error" ])
    ELSE Answer("health_check", 200,
                [ status |-> "healthy",
                  model_loaded |-> got.loaded,
                  model_version |-> "settings.model_version" ])

HealthCheckCall ==
    /\ Len(manager_calls) < MaxManagerCalls
    /\ \E load_succeeds \in BOOLEAN :
           LET got == GetInstanceOf(instance, objects, loaded, load_runs, load_succeeds)
           IN  /\ instance' = got.instance
               /\ objects' = got.allocated
               /\ loaded' = got.loaded
               /\ load_runs' = got.load_runs
               /\ response' = HealthCheck(got)
               /\ manager_calls' =
                      Append(manager_calls,
                             ManagerCall("health_check", "answered", None,
                                         got.loaded, got.load_runs, started,
                                         HealthCheck(got)))
    /\ UNCHANGED <<songs, matchVars, insightVars, analyses, recommendations,
                   explainVars, lateButManager, started>>

InitManager ==
    /\ instance = None
    /\ loaded = FALSE
    /\ objects = 0
    /\ load_runs = 0
    /\ started = FALSE
    /\ manager_calls = << >>
    /\ songs = << >>
    /\ analyses = << >>
    /\ recommendations = << >>
    /\ response = NoValue
    /\ MatchIdle
    /\ InsightsIdle
    /\ ExplainIdle
    /\ LateIdleBut("manager")

NextManager == Construct \/ GetInstanceCall \/ LifespanStartup \/ HealthCheckCall

SpecManager == InitManager /\ [][NextManager]_vars

\* the calls that handed a manager to their caller
Handed ==
    { i \in 1..Len(manager_calls) :
          /\ manager_calls[i].op \in { "ModelManager", "get_instance" }
          /\ manager_calls[i].outcome = "returned" }

\* C22: every ModelManager() and every get_instance() of the process returns
\* the same single object
C22_OneInstance ==
    /\ \A i \in Handed, j \in Handed : manager_calls[i].value = manager_calls[j].value
    /\ objects <= 1

\* constructions and get_instance calls, in both orders, have returned
C22_Witness ==
    /\ \E i \in Handed, j \in Handed :
           /\ i < j
           /\ manager_calls[i].op = "ModelManager"
           /\ manager_calls[j].op = "get_instance"
    /\ \E i \in Handed, j \in Handed :
           /\ i < j
           /\ manager_calls[i].op = "get_instance"
           /\ manager_calls[j].op = "ModelManager"

\* C23: when get_instance() has returned normally the load has run exactly
\* once and the model is loaded, and no later call runs the load again
C23_LoadedOnceWhenReturned ==
    \A i \in 1..Len(manager_calls) :
        (manager_calls[i].op = "get_instance" /\ manager_calls[i].outcome = "returned")
            => /\ manager_calls[i].load_runs = 1
               /\ manager_calls[i].is_loaded
               /\ \A j \in i..Len(manager_calls) : manager_calls[j].load_runs = 1

\* the health calls served after the application's startup
HealthAfterStartup ==
    { i \in 1..Len(manager_calls) :
          manager_calls[i].op = "health_check" /\ manager_calls[i].after_startup }

\* C25: after startup, whether its load succeeded or not, every health call
\* is answered 200 with status healthy, a model_version, and model_loaded
\* equal to the manager's is_loaded()
C25_HealthAlwaysAnswers ==
    \A i \in HealthAfterStartup :
        LET answer == manager_calls[i].response
        IN  /\ answer.status = 200
            /\ answer.body.status = "healthy"
            /\ "model_version" \in DOMAIN answer.body
            /\ answer.body.model_loaded = manager_calls[i].is_loaded
            /\ (i = Len(manager_calls) => answer.body.model_loaded = loaded)

\* two health calls served after a startup whose load failed
C25_Witness ==
    /\ Cardinality(HealthAfterStartup) >= 2
    /\ \E i \in 1..Len(manager_calls) :
           /\ manager_calls[i].op = "lifespan"
           /\ manager_calls[i].load_runs = 1
           /\ ~manager_calls[i].is_loaded

----------------------------------------------------------------------------
(* The label list and the copies handed out (model_manager.py: EMOTIONS,   *)
(* get_emotions_list).  Python lists are objects: a list is named by its   *)
(* position in `lists`, and a caller changes the object it holds.          *)

\* get_emotions_list that returns the class attribute itself
GetEmotionsList_Alias(heap) ==
    [ heap |-> heap, returned |-> 1 ]

\* get_emotions_list: self.EMOTIONS.copy() allocates a list with the same
\* items, and the caller receives the new object
GetEmotionsList(heap) ==
    [ heap |-> Append(heap, heap[1]), returned |-> Len(heap) + 1 ]

\* what a caller can do to a list it holds
ListOperations == { "append", "pop", "setitem", "reverse" }

Reverse(list) == [ i \in 1..Len(list) |-> list[Len(list) + 1 - i] ]

\* the items of a list after list.append("Test"), list.pop(),
\* list[0] = "Test" or list.reverse()
Mutated(list, operation) ==
    IF operation = "append" THEN Append(list, "Test")
    ELSE IF operation = "pop" THEN SubSeq(list, 1, Len(list) - 1)
    ELSE IF operation = "setitem" THEN [ list EXCEPT ![1] = "Test" ]
    ELSE Reverse(list)

MaxLists == 2
MaxMutations == 3

GetEmotionsListCall ==
    /\ Len(handles) < MaxLists
    /\ LET got == GetEmotionsList(lists)
       IN  /\ lists' = got.heap
           /\ handles' = Append(handles,
                                [ list |-> got.returned,
                                  fresh |-> got.returned > Len(lists),
                                  held |-> got.heap[got.returned] ])
    /\ UNCHANGED <<loaded, songs, matchVars, insightVars, apiVars, explainVars,
                   lateButLabel, mutations>>

\* a caller changes a list that get_emotions_list gave it
MutateReturnedList ==
    /\ mutations < MaxMutations
    /\ \E h \in 1..Len(handles), operation \in ListOperations :
           LET list == lists[handles[h].list]
           IN  /\ operation \in { "pop", "setitem" } => list # << >>
               /\ lists' = [ lists EXCEPT ![handles[h].list] = Mutated(list, operation) ]
    /\ mutations' = mutations + 1
    /\ UNCHANGED <<loaded, songs, matchVars, insightVars, apiVars, explainVars,
                   lateButLabel, handles>>

InitLabels ==
    /\ lists = << EMOTIONS >>
    /\ handles = << >>
    /\ mutations = 0
    /\ loaded = FALSE
    /\ songs = << >>
    /\ MatchIdle
    /\ InsightsIdle
    /\ ApiIdle
    /\ ExplainIdle
    /\ LateIdleBut("label")

NextLabels == GetEmotionsListCall \/ MutateReturnedList

SpecLabels == InitLabels /\ [][NextLabels]_vars

\* C24: every get_emotions_list call returned a new list equal to EMOTIONS,
\* and whatever callers did to those lists, ModelManager.EMOTIONS is still
\* the 17 distinct labels in their fixed order, Happiness first and Optimism
\* last
C24_LabelSetImmutable ==
    /\ \A h \in 1..Len(handles) : handles[h].fresh /\ handles[h].held = EMOTIONS
    /\ lists[1] = EMOTIONS
    /\ Len(lists[1]) = 17
    /\ \A i, j \in 1..Len(lists[1]) : lists[1][i] = lists[1][j] => i = j
    /\ lists[1][1] = "Happiness"
    /\ lists[1][Len(lists[1])] = "Optimism"

\* two lists were handed out and both have been changed
C24_Witness ==
    /\ Len(handles) = 2
    /\ \A h \in 1..Len(handles) : lists[handles[h].list] # EMOTIONS

----------------------------------------------------------------------------
(* Feedback on stored recommendations (recommendations.py,                 *)
(* submit_feedback), sent by two users to their own, each other's,         *)
(* anonymous and missing recommendations.                                  *)

\* the Recommendation row get_recommendation stored for a user (or for
\* nobody), before any feedback
StoredRecommendation(user_id, song_id, matched_emotions, detected) ==
    [ user_id |-> user_id,
      analysis_id |-> None,
      song_id |-> song_id,
      match_score |-> Ratio(Len(matched_emotions), detected),
      matched_emotions |-> matched_emotions,
      explanation |-> None,
      feedback_rating |-> None,
      feedback_text |-> None,
      was_played |-> 0,
      was_saved |-> 0,
      feedback_at |-> None ]

\* the users who send feedback
FeedbackUsers == { "alice", "bob" }

\* RecommendationFeedback bodies
Feedbacks ==
    { [ rating |-> 5, feedback_text |-> None,
        was_played |-> TRUE, was_saved |-> FALSE ],
      [ rating |-> 2, feedback_text |-> Some("text"),
        was_played |-> FALSE, was_saved |-> TRUE ] }

\* two songs, and recommendations of them to alice, to bob and to a caller
\* who was not signed in
FeedbackSongs ==
    << RatedRow([ emotions |-> Some(<< "Happiness", "Love" >>),
                  emotion_scores |-> [ e \in {"Happiness", "Love"} |-> 80000 ] ],
                Some(6)),
       RatedRow([ emotions |-> Some(<< "Sadness" >>),
                  emotion_scores |-> [ e \in {"Sadness"} |-> 80000 ] ],
                Some(1)) >>

FeedbackTables ==
    { << StoredRecommendation(Some("alice"), 1, << "Happiness" >>, 2),
         StoredRecommendation(Some("bob"), 1, << "Happiness", "Love" >>, 2),
         StoredRecommendation(None, 2, << "Sadness" >>, 1) >>,
      << StoredRecommendation(None, 1, << "Happiness" >>, 2),
         StoredRecommendation(Some("alice"), 2, << "Sadness" >>, 1),
         StoredRecommendation(Some("alice"), 2, << "Sadness" >>, 3) >> }

InitFeedback ==
    /\ instance = Some("ModelManager")
    /\ loaded = TRUE
    /\ songs = FeedbackSongs
    /\ analyses = << >>
    /\ recommendations \in FeedbackTables
    /\ response = NoValue
    /\ http_request = NoValue
    /\ MatchIdle
    /\ InsightsIdle
    /\ ExplainIdle
    /\ LateIdleBut("request")

\* POST /recommendations/{recommendation_id}/feedback by a signed-in user
SubmitFeedbackBy ==
    /\ \E recommendation_id \in 1..4, feedback \in Feedbacks,
          current_user \in FeedbackUsers, autoflush \in BOOLEAN :
           /\ SubmitFeedback(recommendation_id, feedback, current_user, autoflush)
           /\ http_request' = [ outcome |-> "served", operation |-> "feedback",
                           recommendation_id |-> recommendation_id,
                           current_user |-> current_user ]
    /\ UNCHANGED <<loaded, matchVars, insightVars, instance, analyses, explainVars,
                   lateButRequest>>

NextFeedback == SubmitFeedbackBy

SpecFeedback == InitFeedback /\ [][NextFeedback]_vars

\* the request in hand names a stored recommendation of the user who sent it
OwnRecommendation(req, table) ==
    /\ req.recommendation_id \in 1..Len(table)
    /\ table[req.recommendation_id].user_id = Some(req.current_user)

\* the columns of a recommendation that feedback does not write
Unrated(row) ==
    [ row EXCEPT !.feedback_rating = None, !.feedback_text = None,
                 !.was_played = 0, !.was_saved = 0, !.feedback_at = None ]

\* the columns of a song but its average rating
Unaveraged(song) == [ song EXCEPT !.average_rating = None ]

----------------------------------------------------------------------------
(* Recommendation requests in flight (recommendations.py,                  *)
(* get_recommendation).  A handler reads the songs into its session        *)
(* (db.query(Song).all() in _find_best_matching_song), computes the        *)
(* winner's counters from the row it read, and writes them at db.commit(). *)
(* Handlers of different workers run between each other's read and commit; *)
(* handled one after the other, each commits before the next reads.        *)

MaxWorkers == 3

Workers == 1..MaxWorkers

\* a handler that has not started
IdleWorker == [ pc |-> "idle", text |-> << >>, song |-> NoSong, seen |-> << >>,
                found |-> << >> ]

\* lines 51-72: the verdict of the text and the winner among the rows read
QuerySongs(w, text) ==
    /\ workers[w].pc = "idle"
    /\ LET verdict == PredictionOf(text, DefaultThreshold)
           found == FindBestMatchingSong(songs, verdict.detected_emotions,
                                         verdict.emotions)
       IN  IF found.song = NoSong
           THEN /\ workers' = [ workers EXCEPT ![w].pc = "failed", ![w].text = text ]
                /\ response' = Answer("recommend", 404, << >>)
           ELSE /\ workers' = [ workers EXCEPT
                                  ![w] = [ pc |-> "matched", text |-> text,
                                           song |-> found.song,
                                           seen |-> songs[found.song],
                                           found |-> found ] ]
                /\ UNCHANGED response
    /\ UNCHANGED <<loaded, songs, matchVars, insightVars, instance, analyses,
                   recommendations, explainVars, lateButCounter, songs0>>

\* lines 100-152: the Recommendation row, the counters computed from the row
\* the session read, the commit and the response
CommitRecommendation(w) ==
    /\ workers[w].pc = "matched"
    /\ LET counted == CountRecommendation(workers[w].seen)
           found == workers[w].found
           detected == PredictionOf(workers[w].text, DefaultThreshold).detected_emotions
       IN  /\ songs' = [ songs EXCEPT
                           ![workers[w].song].times_played = counted.times_played,
                           ![workers[w].song].total_matches = counted.total_matches ]
           /\ recommendations' =
                  Append(recommendations,
                         StoredRecommendation(None, found.song, found.matched_emotions,
                                              Max(Len(detected), 1)))
           /\ response' = Answer("recommend", 200,
                                 [ id |-> Len(recommendations) + 1,
                                   song |-> counted,
                                   match_score |-> found.match_score,
                                   matched_emotions |-> found.matched_emotions ])
    /\ workers' = [ workers EXCEPT ![w].pc = "done" ]
    /\ UNCHANGED <<loaded, matchVars, insightVars, instance, analyses,
                   explainVars, lateButCounter, songs0>>

\* songs with the labels of HappyText, with one of them, and with neither
BothKind ==
    [ emotions |-> Some(<< "Happiness", "Love" >>),
      emotion_scores |-> [ e \in {"Happiness", "Love"} |-> 80000 ] ]
OneKind ==
    [ emotions |-> Some(<< "Happiness" >>),
      emotion_scores |-> [ e \in {"Happiness"} |-> 80000 ] ]
SadKind ==
    [ emotions |-> Some(<< "Sadness" >>),
      emotion_scores |-> [ e \in {"Sadness"} |-> 80000 ] ]

\* times_played as the table can hold it
PlayCounts == { None, Some(1), Some(3) }

\* catalogs of three songs, two or three of them equally good for HappyText
CounterCatalogs ==
    { << RatedRow(BothKind, a), RatedRow(kind, b), RatedRow(BothKind, c) >> :
          a \in PlayCounts, b \in PlayCounts, c \in PlayCounts,
          kind \in { BothKind, OneKind } }

\* concurrent handlers, of requests with either text
ConcurrentCatalogs ==
    { << RatedRow(BothKind, Some(1)), RatedRow(SadKind, None) >>,
      << RatedRow(BothKind, Some(1)), RatedRow(BothKind, Some(1)) >> }

InitConcurrent ==
    /\ instance = Some("ModelManager")
    /\ loaded = TRUE
    /\ songs \in ConcurrentCatalogs
    /\ songs0 = songs
    /\ workers = [ w \in Workers |-> IdleWorker ]
    /\ analyses = << >>
    /\ recommendations = << >>
    /\ response = NoValue
    /\ MatchIdle
    /\ InsightsIdle
    /\ ExplainIdle
    /\ LateIdleBut("counter")

NextConcurrent ==
    \/ \E w \in Workers, text \in ApiTexts : QuerySongs(w, text)
    \/ \E w \in Workers : CommitRecommendation(w)

SpecConcurrent == InitConcurrent /\ [][NextConcurrent]_vars

\* no handler is between its read and its commit
NoneInFlight == \A w \in Workers : workers[w].pc # "matched"

InitRotation ==
    /\ instance = Some("ModelManager")
    /\ loaded = TRUE
    /\ songs \in CounterCatalogs
    /\ songs0 = songs
    /\ workers = [ w \in Workers |-> IdleWorker ]
    /\ analyses = << >>
    /\ recommendations = << >>
    /\ response = NoValue
    /\ MatchIdle
    /\ InsightsIdle
    /\ ExplainIdle
    /\ LateIdleBut("counter")

\* requests with the same text, handled one after the other
NextRotation ==
    \/ NoneInFlight /\ \E w \in Workers : QuerySongs(w, HappyText)
    \/ \E w \in Workers : CommitRecommendation(w)

SpecRotation == InitRotation /\ [][NextRotation]_vars

RECURSIVE SumMatches(_)
SumMatches(catalog) ==
    IF catalog = << >> THEN 0
    ELSE OrZero(Head(catalog).total_matches) + SumMatches(Tail(catalog))

\* the requests that were answered with a recommendation
Successful == { w \in Workers : workers[w].pc = "done" }

\* C28: after n successful recommendation requests, however their reads and
\* writes interleave, the match counters of all songs together have grown
\* by exactly n
C28_NoLostIncrement ==
    SumMatches(songs) = SumMatches(songs0) + Cardinality(Successful)

\* the key the matcher maximises, for a song and the verdict of HappyText
CountFor(song) ==
    Len(Matched(song, PredictionOf(HappyText, DefaultThreshold).detected_emotions))
WeightFor(song) ==
    WeightedScore(Matched(song, PredictionOf(HappyText, DefaultThreshold).detected_emotions),
                  PredictionOf(HappyText, DefaultThreshold).emotions)
AtLeastAsGood(a, b) ==
    \/ CountFor(a) > CountFor(b)
    \/ CountFor(a) = CountFor(b) /\ WeightFor(a) >= WeightFor(b)

\* the songs tied for the maximum (matched labels, weighted score)
Tied(catalog) ==
    { i \in 1..Len(catalog) :
          \A j \in 1..Len(catalog) : AtLeastAsGood(catalog[i], catalog[j]) }

\* largest less smallest times_played among the tied songs
PlayGap(catalog) ==
    LET plays == { OrZero(catalog[i].times_played) : i \in Tied(catalog) }
    IN  (CHOOSE p \in plays : \A q \in plays : p >= q)
            - (CHOOSE p \in plays : \A q \in plays : p <= q)

\* C29: requests with the same verdict, handled one after the other, each
\* select a least-played song among those tied for the maximum, and the gap
\* between the most and the least played of the tied songs never exceeds
\* max(1, the gap at the start)
C29_LeastPlayedRotation ==
    /\ \A w \in Workers :
           workers[w].pc = "matched" =>
               /\ workers[w].song \in Tied(songs)
               /\ \A i \in Tied(songs) :
                      OrZero(songs[workers[w].song].times_played)
                          <= OrZero(songs[i].times_played)
    /\ PlayGap(songs) <= Max(1, PlayGap(songs0))

\* three requests were served, from equally played tied songs, and each of
\* two tied songs has won
C29_Witness ==
    /\ Cardinality(Successful) = MaxWorkers
    /\ PlayGap(songs0) = 0
    /\ Cardinality(Tied(songs)) >= 2
    /\ Cardinality({ recommendations[i].song_id : i \in 1..Len(recommendations) }) >= 2

----------------------------------------------------------------------------
(* The routes of the recommendations router (recommendations.py, the       *)
(* @router decorators) and its two GET handlers.  Routes are tried in the  *)
(* order of their declaration; a path is the sequence of its segments, and *)
(* a segment is a word or the text of the UUID of a stored row.            *)

Word(text) == [ kind |-> "word", text |-> text ]
UuidOf(row) == [ kind |-> "uuid", row |-> row ]
Literal(text) == [ kind |-> "literal", text |-> text ]
Param(name) == [ kind |-> "param", name |-> name ]

\* the routes, in the order the decorators register them
Routes ==
    << [ method |-> "POST", pattern |-> << >>,
         endpoint |-> "get_recommendation" ],
       [ method |-> "GET", pattern |-> << Param("recommendation_id") >>,
         endpoint |-> "get_recommendation_by_id" ],
       [ method |-> "POST",
         pattern |-> << Param("recommendation_id"), Literal("feedback") >>,
         endpoint |-> "submit_feedback" ],
       [ method |-> "GET", pattern |-> << Literal("history") >>,
         endpoint |-> "get_history" ] >>

\* a path parameter takes any segment, a literal only the same word
SegmentMatches(part, segment) ==
    \/ part.kind = "param"
    \/ /\ part.kind = "literal"
       /\ segment.kind = "word"
       /\ segment.text = part.text

PathMatches(pattern, path) ==
    /\ Len(pattern) = Len(path)
    /\ \A i \in 1..Len(pattern) : SegmentMatches(pattern[i], path[i])

\* the first route whose path and method match the request; failing that,
\* 405 if some route's path matches and 404 if none does
Dispatch(method, path) ==
    LET full == { r \in 1..Len(Routes) :
                      PathMatches(Routes[r].pattern, path) /\ Routes[r].method = method }
        partial == { r \in 1..Len(Routes) : PathMatches(Routes[r].pattern, path) }
    IN  IF full # {}
        THEN [ status |-> 200,
               route |-> CHOOSE r \in full : \A q \in full : r <= q ]
        ELSE [ status |-> IF partial # {} THEN 405 ELSE 404, route |-> 0 ]

\* recommendation_id: UUID -- the segment as a UUID, or None when the text
\* is not one
ParseUuid(segment) ==
    IF segment.kind = "uuid" THEN Some(segment.row) ELSE None

\* r.analysis.primary_emotion if r.analysis else "Unknown"
PrimaryEmotionOf(row) ==
    IF row.analysis_id = None THEN "Unknown"
    ELSE analyses[row.analysis_id[1]].primary_emotion

\* GET /{recommendation_id}
GetRecommendationById(segment, current_user) ==
    LET recommendation_id == ParseUuid(segment)
    IN  IF recommendation_id = None
        THEN Answer("get_recommendation_by_id", 422, [ loc |-> "recommendation_id" ])
        ELSE IF \/ recommendation_id[1] \notin 1..Len(recommendations)
                \/ recommendations[recommendation_id[1]].user_id # Some(current_user)
        THEN Answer("get_recommendation_by_id", 404, << >>)
        ELSE LET row == recommendations[recommendation_id[1]]
             IN  Answer("get_recommendation_by_id", 200,
                        [ id |-> recommendation_id[1],
                          song |-> songs[row.song_id],
                          match_score |-> row.match_score,
                          matched_emotions |-> row.matched_emotions,
                          explanation |-> row.explanation ])

\* the positions of a user's rows, newest first: rows are stored in the
\* order of their creation
RECURSIVE NewestFirst(_, _)
NewestFirst(n, user) ==
    IF n = 0 THEN << >>
    ELSE (IF recommendations[n].user_id = Some(user) THEN << n >> ELSE << >>)
             \o NewestFirst(n - 1, user)

\* .offset(offset).limit(per_page)
Page(list, offset, per_page) ==
    SubSeq(list, offset + 1,
           IF offset + per_page < Len(list) THEN offset + per_page ELSE Len(list))

MaxPerPage == 50

\* GET /history
GetHistory(page, per_page, current_user) ==
    IF page < 1 \/ per_page < 1 \/ per_page > MaxPerPage
    THEN Answer("get_history", 422, [ loc |-> "query" ])
    ELSE LET offset == (page - 1) * per_page
             mine == NewestFirst(Len(recommendations), current_user)
             shown == Page(mine, offset, per_page)
         IN  Answer("get_history", 200,
                    [ recommendations |->
                          [ i \in 1..Len(shown) |->
                                [ id |-> shown[i],
                                  song |-> songs[recommendations[shown[i]].song_id],
                                  match_score |-> recommendations[shown[i]].match_score,
                                  primary_emotion |->
                                      PrimaryEmotionOf(recommendations[shown[i]]),
                                  feedback_rating |->
                                      recommendations[shown[i]].feedback_rating ] ],
                      total |-> Len(mine),
                      page |-> page,
                      per_page |-> per_page ])

\* the response to a GET or DELETE request of a signed-in user
Serve(req) ==
    LET dispatched == Dispatch(req.method, req.path)
    IN  IF dispatched.route = 0
        THEN Answer("router", dispatched.status, << >>)
        ELSE IF Routes[dispatched.route].endpoint = "get_recommendation_by_id"
        THEN GetRecommendationById(req.path[1], req.current_user)
        ELSE GetHistory(req.page, req.per_page, req.current_user)

\* the paths, pages and page sizes of the explored requests
RoutePaths ==
    { << Word("history") >>, << Word("stats") >>,
      << UuidOf(1) >>, << UuidOf(3) >>, << UuidOf(4) >>,
      << UuidOf(1), Word("feedback") >>, << Word("history"), Word("stats") >> }
RoutePages == { 0, 1, 2 }
RoutePageSizes == { 1, 2, 10, 51 }

ServeRequest ==
    /\ \E method \in { "GET", "DELETE" }, path \in RoutePaths,
          page \in RoutePages, per_page \in RoutePageSizes,
          current_user \in FeedbackUsers :
           LET req == [ outcome |-> "served", method |-> method, path |-> path,
                        page |-> page, per_page |-> per_page,
                        current_user |-> current_user ]
           IN  /\ http_request' = req
               /\ response' = Serve(req)
    /\ UNCHANGED <<loaded, songs, matchVars, insightVars, instance, analyses,
                   recommendations, explainVars, lateButRequest>>

InitRoutes ==
    /\ instance = Some("ModelManager")
    /\ loaded = TRUE
    /\ songs = FeedbackSongs
    /\ analyses = << >>
    /\ recommendations \in FeedbackTables
    /\ response = NoValue
    /\ http_request = NoValue
    /\ MatchIdle
    /\ InsightsIdle
    /\ ExplainIdle
    /\ LateIdleBut("request")

NextRoutes == ServeRequest

SpecRoutes == InitRoutes /\ [][NextRoutes]_vars

\* C30: GET /history of a signed-in user is handled by get_history, which
\* answers with that user's own recommendations, newest first, at most
\* per_page of them; the route /{recommendation_id} declared before it does
\* not take the request
C30_HistoryReachesGetHistory ==
    ( /\ http_request.outcome = "served"
      /\ http_request.method = "GET"
      /\ http_request.path = << Word("history") >>
      /\ http_request.page >= 1
      /\ http_request.per_page \in 1..MaxPerPage )
        => /\ response.operation = "get_history"
           /\ response.status = 200
           /\ Len(response.body.recommendations) <= http_request.per_page
           /\ \A i \in 1..Len(response.body.recommendations) :
                  /\ recommendations[response.body.recommendations[i].id].user_id
                         = Some(http_request.current_user)
                  /\ i > 1 => response.body.recommendations[i].id
                                  < response.body.recommendations[i - 1].id

----------------------------------------------------------------------------
(* The complexity of a verdict (model_manager.py, predict, lines 187-194): *)
(*     scores_normalized = scores_array / (scores_array.sum() + 1e-10)     *)
(*     entropy = -sum(scores_normalized * log(scores_normalized + 1e-10))  *)
(*     emotional_complexity = entropy / log(len(EMOTIONS))                 *)
(* Probabilities, logarithms and the result are fixed-point numbers with   *)
(* four decimal places: 10000 is 1.0.  A score vector is a vector of whole *)
(* multiples of a unit 10^-k: k = 5 is the hundred-thousandths of the rest *)
(* of the model, k = 10 and k = 12 reach the scores of the size of the     *)
(* guard 1e-10 (sigmoid outputs for logits near -23 and -27.6).            *)

FixedPoint == 10000

\* 2 * artanh(z) = 2 * (z + z^3/3 + z^5/5 + z^7/7 + z^9/9), for 0 <= z <= 1/3
TwiceArtanh(z) ==
    LET z2 == (z * z) \div FixedPoint
        t3 == (z * z2) \div FixedPoint
        t5 == (t3 * z2) \div FixedPoint
        t7 == (t5 * z2) \div FixedPoint
        t9 == (t7 * z2) \div FixedPoint
    IN  2 * (z + t3 \div 3 + t5 \div 5 + t7 \div 7 + t9 \div 9)

\* log(2) = 2 * artanh(1/3)
LogTwo == TwiceArtanh(FixedPoint \div 3)

\* numpy.log(x) for x > 0: log(m * 2^k) = 2 * artanh((m - 1)/(m + 1)) + k * log(2)
\* with 1 <= m < 2
RECURSIVE Log(_)
Log(x) ==
    IF x >= 2 * FixedPoint THEN Log(x \div 2) + LogTwo
    ELSE IF x < FixedPoint THEN Log(2 * x) - LogTwo
    ELSE TwiceArtanh(((x - FixedPoint) * FixedPoint) \div (x + FixedPoint))

\* the guard 1e-10 in units of 10^-k, to the nearest whole unit: on the
\* hundred-thousandths grid it is 10^-5 of a unit
Guard(unit) == IF unit = 10 THEN 1 ELSE IF unit = 12 THEN 100 ELSE 0

RECURSIVE SumValues(_, _)
SumValues(values, n) ==
    IF n = 0 THEN 0 ELSE values[EMOTIONS[n]] + SumValues(values, n - 1)

\* scores_array / (scores_array.sum() + 1e-10): with the guard the quotient
\* of an all-zero vector is 0, not 0/0
Normalized(scores, e) ==
    LET total == SumValues(scores.values, Len(EMOTIONS)) + Guard(scores.unit)
    IN  IF total = 0 THEN 0
        ELSE (scores.values[e] * FixedPoint) \div total

\* p * log(p + 1e-10): the guard inside the logarithm is below the fixed
\* point's last place; it makes the term of p = 0 equal to 0 * log(1e-10) = 0
PLogP(p) == IF p = 0 THEN 0 ELSE (p * Log(p)) \div FixedPoint

\* -sum(scores_normalized * log(scores_normalized + 1e-10))
RECURSIVE Entropy(_, _)
Entropy(scores, n) ==
    IF n = 0 THEN 0
    ELSE Entropy(scores, n - 1) - PLogP(Normalized(scores, EMOTIONS[n]))

\* float(entropy / max_entropy), max_entropy = log(len(self.EMOTIONS))
EmotionalComplexity(scores) ==
    (Entropy(scores, Len(EMOTIONS)) * FixedPoint) \div Log(Len(EMOTIONS) * FixedPoint)

\* the score vectors explored: the first j labels score `high`, the others
\* `low`, in units of 10^-k
ScoreLevels == { 0, 1, 10000, 50000, 100000 }
ScoreUnits == { 5, 10, 12 }
ScoreArrays ==
    { [ values |-> [ e \in Labels |-> IF IndexOf(e) <= j THEN high ELSE low ],
        unit |-> unit ] :
          j \in 0..Len(EMOTIONS), high \in ScoreLevels, low \in ScoreLevels,
          unit \in ScoreUnits }

InitComplexity ==
    /\ loaded = TRUE
    /\ songs = << >>
    /\ scores_array \in ScoreArrays
    /\ emotional_complexity = NoValue
    /\ MatchIdle
    /\ InsightsIdle
    /\ ApiIdle
    /\ ExplainIdle
    /\ LateIdleBut("complexity")

\* predict, lines 187-194
ComputeComplexity ==
    /\ emotional_complexity = NoValue
    /\ emotional_complexity' =
           [ outcome |-> "returned", value |-> EmotionalComplexity(scores_array) ]
    /\ UNCHANGED <<loaded, songs, matchVars, insightVars, apiVars, explainVars,
                   lateButComplexity, scores_array>>

NextComplexity == ComputeComplexity

SpecComplexity == InitComplexity /\ [][NextComplexity]_vars

----------------------------------------------------------------------------
(* Claim of the complexity measure *)

\* the score vector normalised to a distribution: each score over the sum
Distribution(scores, e) ==
    LET total == SumValues(scores.values, Len(EMOTIONS))
    IN  IF total = 0 THEN 0 ELSE (scores.values[e] * FixedPoint) \div total

RECURSIVE ShannonEntropy(_, _)
ShannonEntropy(scores, n) ==
    IF n = 0 THEN 0
    ELSE ShannonEntropy(scores, n - 1) - PLogP(Distribution(scores, EMOTIONS[n]))

NormalisedEntropy(scores) ==
    (ShannonEntropy(scores, Len(EMOTIONS)) * FixedPoint) \div Log(Len(EMOTIONS) * FixedPoint)

\* the floating tolerance granted to the claim: one hundredth
Within(a, b) == a - b <= FixedPoint \div 100 /\ b - a <= FixedPoint \div 100

AllEqualPositive(scores) ==
    \A e \in Labels : scores.values[e] = scores.values[EMOTIONS[1]] /\ scores.values[e] > 0

\* one score 1, the rest 0
OneHot(scores) ==
    /\ scores.unit = 5
    /\ \E e \in Labels :
          /\ scores.values[e] = 100000
          /\ \A f \in Labels \ {e} : scores.values[f] = 0

\* C26: the complexity of a verdict is the Shannon entropy of the score
\* vector normalised to a distribution, divided by ln(17); it lies in [0,1]
\* for every score vector over the 17 labels, is 1.0 (within the tolerance)
\* for a vector whose scores are all equal and positive, and is 0.0 for a
\* one-hot vector.
C26_ComplexityIsNormalisedEntropy ==
    emotional_complexity.outcome = "returned" =>
        LET c == emotional_complexity.value
        IN  /\ Within(c, NormalisedEntropy(scores_array))
            /\ c >= 0 - FixedPoint \div 100
            /\ c <= FixedPoint + FixedPoint \div 100
            /\ AllEqualPositive(scores_array) => Within(c, FixedPoint)
            /\ OneHot(scores_array) => Within(c, 0)

====
